---- MODULE Spec2Model ----
(***************************************************************************)
(* Model of src/app.py (Telegram channel -> Hugo exporter):                *)
(*   - the continuation-marker detector (the regular expression of         *)
(*     group_messages, applied to the stripped message text),              *)
(*   - the message grouper TelegramHugoExporter.group_messages,            *)
(*   - the structure parser TelegramHugoExporter.parse_message_structure.  *)
(* A text is a sequence of one-character strings.  A message is known by   *)
(* its position in the chronological input stream.                         *)
(***************************************************************************)
EXTENDS Integers, Sequences, FiniteSets, TLC

\* ------------------------------------------------------------------ bounds
\* longest input stream fed to group_messages
MaxMsgs == 3
\* largest index / total written in a generated marker token
MaxNum == 3
\* longest text fed to the marker detector on its own
MaxLen == 5
\* most lines of a text fed to parse_message_structure
MaxLines == 5

\* most messages in the group handed to download_album_media
MaxMedia == 3

\* most groups in one process_messages_to_hugo run
MaxGroups == 2

\* longest first body line of a text whose title is rendered
MaxTitle == 104

\* ------------------------------------------------------ program constants
\* longest title parse_message_structure keeps uncut
TitleLimit == 100

\* characters of the first line generate_folder_name keeps
FolderLimit == 50

\* longest title create_hugo_post keeps uncut
TitleShort == 30

\* characters create_hugo_post keeps of a longer title
TitleCut == 70

VARIABLES
    messages,                \* group_messages: texts of the stream consumed so far
    grouped,                 \* group_messages: emitted groups (sequences of message ids)
    current_group,           \* group_messages: the open group
    expecting_continuation,  \* group_messages: a series is open
    expected_next,           \* group_messages: next expected index
    expected_total,          \* group_messages: expected total
    pc,                      \* "loop" while iterating, "done" after the return;
                             \* "detect" / "detected" in a detector run;
                             \* "parse" / "parsed" in a parser run
    text,                    \* detector run: the raw text
    continuation_match,      \* detector run: the match record
    raw_lines,               \* parse_message_structure: text.split("\n") read so far
    structure,               \* parse_message_structure: the structure dict
    content_started          \* parse_message_structure: a body line was seen

VARIABLES
    folder_name,             \* download_album_media: the folder_name argument
    message_group,           \* download_album_media: ids of the group, in group order
    album_messages,          \* download_album_media: album messages still to process
    single_messages,         \* download_album_media: single messages still to process
    image_count,             \* download_album_media: image_count
    featured_image,          \* download_album_media: featured_image (<<>> is None)
    downloads,               \* download_album_media: one record per processed message
    index_file               \* create_hugo_post: index.md was written

\* the state of one download_album_media call inside create_hugo_post
mediaVars == <<folder_name, message_group, album_messages, single_messages,
               image_count, featured_image, downloads, index_file>>

VARIABLES
    run_texts,               \* process_messages_to_hugo: combined text of each group
    run_media,               \* process_messages_to_hugo: message ids of each group
    content_dir,             \* the files under content_dir: (folder, file) pairs
    attempts,                \* process_messages_to_hugo: the try blocks that ended
    group_index,             \* process_messages_to_hugo: groups handled so far
    posts,                   \* create_hugo_post: the index.md files written, in order
    now                      \* datetime.now(), in seconds since the run started

\* the state of one process_messages_to_hugo run
runVars == <<run_texts, run_media, content_dir, attempts, group_index, posts,
             now>>

VARIABLES
    title,                   \* create_hugo_post: the frontmatter title
    hugo_date                \* create_hugo_post: the frontmatter date

\* the frontmatter values of one create_hugo_post call
frontVars == <<title, hugo_date>>

vars == <<messages, grouped, current_group, expecting_continuation,
          expected_next, expected_total, pc, text, continuation_match,
          raw_lines, structure, content_started, mediaVars, runVars,
          frontVars>>

\* ------------------------------------------------------------ characters
Digits == <<"0", "1", "2", "3", "4", "5", "6", "7", "8", "9">>

DigitSet == {Digits[d] : d \in 1..10}

IsDigit(c) == c \in DigitSet

DigitVal(c) == (CHOOSE d \in 1..10 : Digits[d] = c) - 1

IsSpace(c) == c \in {" ", "\n", "\t"}

\* message.text of a message that carries no text at all (None)
None == <<"None">>

MinOf(S) == CHOOSE x \in S : \A y \in S : x <= y

MaxOf(S) == CHOOSE x \in S : \A y \in S : x >= y

\* int(): value of a run of decimal digits
RECURSIVE IntOf(_)
IntOf(ds) ==
    IF ds = <<>> THEN 0
    ELSE 10 * IntOf(SubSeq(ds, 1, Len(ds) - 1)) + DigitVal(ds[Len(ds)])

\* str.strip(): drop leading and trailing whitespace
Strip(t) ==
    LET keep == {i \in 1..Len(t) : ~IsSpace(t[i])}
        back == {i \in 1..Len(t) : ~IsSpace(t[Len(t) + 1 - i])}
    IN  IF keep = {} THEN <<>>
        ELSE SubSeq(t, MinOf(keep), Len(t) + 1 - MinOf(back))

\* first position q >= p that does not hold a digit (Len(t)+1 at the end)
DigitRunEnd(t, p) ==
    MinOf({q \in p..(Len(t) + 1) : q = Len(t) + 1 \/ ~IsDigit(t[q])})

\* first position q >= p that does not hold whitespace
SpaceRunEnd(t, p) ==
    MinOf({q \in p..(Len(t) + 1) : q = Len(t) + 1 \/ ~IsSpace(t[q])})

NoMatch == [matched |-> FALSE, current_num |-> 0, total_num |-> 0]

\* the pattern (?:\()?(\d+)/(\d+)(?:\))?\s*$ tried at start position s
MatchAt(t, s) ==
    LET n  == Len(t)
        p1 == IF s <= n /\ t[s] = "(" THEN s + 1 ELSE s
        e1 == DigitRunEnd(t, p1)
        p2 == e1 + 1
        e2 == DigitRunEnd(t, p2)
        p3 == IF e2 <= n /\ t[e2] = ")" THEN e2 + 1 ELSE e2
        p4 == SpaceRunEnd(t, p3)
    IN  IF /\ e1 > p1
           /\ e1 <= n
           /\ t[e1] = "/"
           /\ e2 > p2
           /\ p4 = n + 1
        THEN [matched |-> TRUE,
              current_num |-> IntOf(SubSeq(t, p1, e1 - 1)),
              total_num |-> IntOf(SubSeq(t, p2, e2 - 1))]
        ELSE NoMatch

\* re.match instead of re.search: the pattern is tried at the start only
SearchStarts_OnlyFirst(t) == {s \in 1..Len(t) : s = 1}

\* positions at which re.search tries the pattern, left to right
SearchStarts(t) == 1..Len(t)

\* re.search(pattern, text): the leftmost start position that matches
ContinuationMatch(t) ==
    LET hits == {s \in SearchStarts(t) : MatchAt(t, s).matched}
    IN  IF hits = {} THEN NoMatch ELSE MatchAt(t, MinOf(hits))

\* text = message.text.strip(); re.search(pattern, text)
DetectMarker(t) == ContinuationMatch(Strip(t))

\* ------------------------------------------------------- input alphabet
\* decimal digits of a natural number
RECURSIVE DigitsOf(_)
DigitsOf(n) ==
    IF n < 10 THEN <<Digits[n + 1]>>
    ELSE DigitsOf(n \div 10) \o <<Digits[(n % 10) + 1]>>

\* a message text ending in the marker i/t, parenthesized when i + t is even
MarkerText(i, t) ==
    IF (i + t) % 2 = 0
    THEN <<"a", " ", "(">> \o DigitsOf(i) \o <<"/">> \o DigitsOf(t) \o <<")">>
    ELSE <<"a", " ">> \o DigitsOf(i) \o <<"/">> \o DigitsOf(t)

\* texts of the messages a channel may deliver
MsgTexts ==
    {None, <<>>, <<"a">>, MarkerText(1, 0)} \cup
    {MarkerText(i, t) : i \in 0..MaxNum, t \in 1..MaxNum}

\* continuation_match of every text of MsgTexts, evaluated once
DetectTable == [t \in MsgTexts \ {None} |-> DetectMarker(t)]

\* continuation_match, current_num, total_num of the message text t
MarkerOf(t) ==
    IF t \in DOMAIN DetectTable THEN DetectTable[t] ELSE DetectMarker(t)

\* the loop without `if not message.text: continue`
HasText_Always(t) == TRUE

\* `if not message.text: continue`
HasText(t) == t # None /\ t # <<>>

\* ---------------------------------------------------------------- grouper
GState(g, c, e, n, t) ==
    [grouped |-> g, current_group |-> c, expecting_continuation |-> e,
     expected_next |-> n, expected_total |-> t]

\* a save that never appends the open group
SaveGroup_Never(g, c) == g

\* grouped.append(current_group) guarded by `if current_group:`
SaveGroup(g, c) == IF c # <<>> THEN Append(g, c) ELSE g

\* StartSeries whose 1/1 case leaves expecting_continuation as it was
StartSeries_KeepExpecting(st, message, total_num) ==
    LET g == SaveGroup(st.grouped, st.current_group)
    IN  IF total_num > 1
        THEN GState(g, <<message>>, TRUE, 2, total_num)
        ELSE GState(Append(g, <<message>>), <<>>, st.expecting_continuation,
                    st.expected_next, st.expected_total)

\* StartSeries that tests `total_num != 1` instead of `total_num > 1`
StartSeries_AnyTotal(st, message, total_num) ==
    LET g == SaveGroup(st.grouped, st.current_group)
    IN  IF total_num # 1
        THEN GState(g, <<message>>, TRUE, 2, total_num)
        ELSE GState(Append(g, <<message>>), <<>>, FALSE,
                    st.expected_next, st.expected_total)

\* branch `if current_num == 1`
StartSeries(st, message, total_num) ==
    LET g == SaveGroup(st.grouped, st.current_group)
    IN  IF total_num > 1
        THEN GState(g, <<message>>, TRUE, 2, total_num)
        ELSE GState(Append(g, <<message>>), <<>>, FALSE,
                    st.expected_next, st.expected_total)

\* ValidContinuation without `expected_next += 1`
ValidContinuation_NoIncrement(st, message, current_num, total_num) ==
    LET c == Append(st.current_group, message)
    IN  IF current_num = total_num
        THEN GState(Append(st.grouped, c), <<>>, FALSE, 1, 1)
        ELSE GState(st.grouped, c, st.expecting_continuation,
                    st.expected_next, st.expected_total)

\* IsValidContinuation without `current_num == expected_next`
IsValidContinuation_NoIndex(st, current_num, total_num) ==
    /\ st.expecting_continuation
    /\ total_num = st.expected_total

\* IsValidContinuation without `total_num == expected_total`
IsValidContinuation_NoTotal(st, current_num, total_num) ==
    /\ st.expecting_continuation
    /\ current_num = st.expected_next

\* condition `expecting_continuation and current_num == expected_next and
\* total_num == expected_total`
IsValidContinuation(st, current_num, total_num) ==
    /\ st.expecting_continuation
    /\ current_num = st.expected_next
    /\ total_num = st.expected_total

\* body of the `elif` branch: a valid continuation
ValidContinuation(st, message, current_num, total_num) ==
    LET c == Append(st.current_group, message)
    IN  IF current_num = total_num
        THEN GState(Append(st.grouped, c), <<>>, FALSE, 1, 1)
        ELSE GState(st.grouped, c, st.expecting_continuation,
                    st.expected_next + 1, st.expected_total)

\* UnexpectedContinuation that emits the message but leaves the open group
\* and the expectation as they were
UnexpectedContinuation_NoReset(st, message, current_num, total_num) ==
    GState(Append(SaveGroup(st.grouped, st.current_group), <<message>>),
           st.current_group, st.expecting_continuation,
           st.expected_next, st.expected_total)

\* branch `else` of the marker case: unexpected continuation, broken sequence
UnexpectedContinuation(st, message, current_num, total_num) ==
    LET g == SaveGroup(st.grouped, st.current_group)
    IN  IF current_num = 1
        THEN IF total_num > 1
             THEN GState(g, <<message>>, TRUE, 2, total_num)
             ELSE GState(Append(g, <<message>>), <<>>, FALSE,
                         st.expected_next, st.expected_total)
        ELSE GState(Append(g, <<message>>), <<>>, FALSE, 1, 1)

\* SingleMessage that leaves expecting_continuation as it was
SingleMessage_KeepExpecting(st, message) ==
    GState(Append(SaveGroup(st.grouped, st.current_group), <<message>>),
           <<>>, st.expecting_continuation, st.expected_next,
           st.expected_total)

\* SingleMessage that emits the message before the open group
SingleMessage_EmitFirst(st, message) ==
    GState(SaveGroup(Append(st.grouped, <<message>>), st.current_group),
           <<>>, FALSE, 1, 1)

\* branch `else` of `if continuation_match`: a message outside any series
SingleMessage(st, message) ==
    GState(Append(SaveGroup(st.grouped, st.current_group), <<message>>),
           <<>>, FALSE, 1, 1)

\* one iteration of `for message in messages`
GroupStep(st, message, t) ==
    IF ~HasText(t) THEN st
    ELSE LET m == MarkerOf(t)
         IN  IF m.matched
             THEN IF m.current_num = 1
                  THEN StartSeries(st, message, m.total_num)
                  ELSE IF IsValidContinuation(st, m.current_num, m.total_num)
                       THEN ValidContinuation(st, message, m.current_num,
                                              m.total_num)
                       ELSE UnexpectedContinuation(st, message, m.current_num,
                                                   m.total_num)
             ELSE SingleMessage(st, message)

\* group_messages without the flush after the loop
FinalFlush_NoFlush(st) == st

\* after the loop: `if current_group: grouped.append(current_group)`
FinalFlush(st) ==
    GState(SaveGroup(st.grouped, st.current_group), st.current_group,
           st.expecting_continuation, st.expected_next, st.expected_total)

\* the locals of group_messages before the loop
GroupInit == GState(<<>>, <<>>, FALSE, 1, 1)

Cur == GState(grouped, current_group, expecting_continuation,
              expected_next, expected_total)

\* the state of the locals after the first k iterations of the loop over msgs
RECURSIVE RunLoop(_, _)
RunLoop(msgs, k) ==
    IF k = 0 THEN GroupInit
    ELSE GroupStep(RunLoop(msgs, k - 1), k, msgs[k])

\* group_messages(msgs): the returned list of groups
GroupMessages(msgs) == FinalFlush(RunLoop(msgs, Len(msgs))).grouped

\* ------------------------------------------------- parse_message_structure
Uppers == <<"A", "B", "C", "D", "E", "F", "G", "H", "I", "J", "K", "L", "M",
            "N", "O", "P", "Q", "R", "S", "T", "U", "V", "W", "X", "Y", "Z">>

Lowers == <<"a", "b", "c", "d", "e", "f", "g", "h", "i", "j", "k", "l", "m",
            "n", "o", "p", "q", "r", "s", "t", "u", "v", "w", "x", "y", "z">>

\* str.isupper() of one character
IsUpper(c) == \E k \in 1..26 : Uppers[k] = c

\* str.lower()
LowerChar(c) ==
    IF IsUpper(c) THEN Lowers[CHOOSE k \in 1..26 : Uppers[k] = c] ELSE c

Lower(l) == [k \in 1..Len(l) |-> LowerChar(l[k])]

\* l[p:] starts with sub
MatchesAt(l, p, sub) ==
    /\ p + Len(sub) - 1 <= Len(l)
    /\ \A k \in 1..Len(sub) : l[p + k - 1] = sub[k]

\* `sub in l`
Contains(l, sub) == \E p \in 1..(Len(l) + 1) : MatchesAt(l, p, sub)

\* l.startswith(pre)
StartsWith(l, pre) == MatchesAt(l, 1, pre)

\* first characters of the words of l.split()
WordInitials(l) ==
    {l[p] : p \in {q \in 1..Len(l) :
                      ~IsSpace(l[q]) /\ (q = 1 \/ IsSpace(l[q - 1]))}}

\* len(l.split())
WordCount(l) ==
    Cardinality({q \in 1..Len(l) :
                    ~IsSpace(l[q]) /\ (q = 1 \/ IsSpace(l[q - 1]))})

PartyIndicators ==
    {<<"p", "a", "r", "t", "y">>,
     <<"m", "o", "v", "e", "m", "e", "n", "t">>,
     <<"o", "r", "g", "a", "n", "i", "z", "a", "t", "i", "o", "n">>,
     <<"f", "r", "o", "n", "t">>,
     <<"u", "n", "i", "o", "n">>,
     <<"c", "o", "n", "g", "r", "e", "s", "s">>,
     <<"l", "e", "a", "g", "u", "e">>,
     <<"a", "s", "s", "o", "c", "i", "a", "t", "i", "o", "n">>,
     <<"c", "o", "u", "n", "c", "i", "l">>,
     <<"c", "o", "m", "m", "i", "t", "t", "e", "e">>}

CommitteeIndicators ==
    {<<"c", "o", "m", "m", "i", "t", "t", "e", "e">>,
     <<"c", "e", "n", "t", "r", "a", "l">>,
     <<"z", "o", "n", "a", "l">>,
     <<"p", "r", "o", "v", "i", "n", "c", "i", "a", "l">>,
     <<"d", "i", "s", "t", "r", "i", "c", "t">>,
     <<"d", "i", "v", "i", "s", "i", "o", "n">>,
     <<"w", "i", "n", "g">>,
     <<"c", "e", "l", "l">>,
     <<"b", "u", "r", "e", "a", "u">>,
     <<"s", "e", "c", "r", "e", "t", "a", "r", "i", "a", "t">>}

\* any(indicator in line.lower() for indicator in party_indicators), or at
\* least two words that all start with an upper-case letter
LooksLikeParty(l) ==
    \/ \E ind \in PartyIndicators : Contains(Lower(l), ind)
    \/ WordCount(l) >= 2 /\ \A c \in WordInitials(l) : IsUpper(c)

\* any(indicator in line.lower() for indicator in committee_indicators)
LooksLikeCommittee(l) ==
    \E ind \in CommitteeIndicators : Contains(Lower(l), ind)

\* "press release" in line.lower()
IsPressRelease(l) == Contains(Lower(l), <<"p", "r", "e", "s", "s", " ", "r", "e", "l", "e", "a", "s", "e">>)

\* \d{2}-\d{2}-\d{4} matches l at position p
DateAt(l, p) ==
    /\ p + 9 <= Len(l)
    /\ \A k \in {0, 1, 3, 4, 6, 7, 8, 9} : IsDigit(l[p + k])
    /\ l[p + 2] = "-"
    /\ l[p + 5] = "-"

\* line.lower().startswith("date:") or re.match(r"\d{2}-\d{2}-\d{4}", line)
IsDateLine(l) == StartsWith(Lower(l), <<"d", "a", "t", "e", ":">>) \/ DateAt(l, 1)

\* re.search(r"(\d{2}-\d{2}-\d{4})", line): group(1) of the first match,
\* <<>> when there is none
DateSearch(l) ==
    LET hits == {p \in 1..Len(l) : DateAt(l, p)}
    IN  IF hits = {} THEN <<>> ELSE SubSeq(l, MinOf(hits), MinOf(hits) + 9)

\* what the tests of the loop body find in the line l
Classify(l) ==
    [party |-> LooksLikeParty(l), committee |-> LooksLikeCommittee(l),
     press |-> IsPressRelease(l), dateline |-> IsDateLine(l),
     date |-> DateSearch(l)]

\* a first body line longer than TitleLimit
LongLine == [k \in 1..(TitleLimit + 1) |-> "x"]

\* the lines text.split("\n") may hold
LinePool ==
    {<<"R", "e", "d", " ", "U", "n", "i", "o", "n">>,
     <<"c", "e", "n", "t", "r", "a", "l">>,
     <<"P", "r", "e", "s", "s", " ", "R", "e", "l", "e", "a", "s", "e">>,
     <<"0", "1", "-", "0", "2", "-", "2", "0", "2", "3">>,
     <<"w", "e", " ", "a", "c", "t">>,
     <<" ", " ", "m", "o", "r", "e", " ">>,
     <<>>,
     LongLine}

\* lines of a text whose body holds press-release and date lines
DatedLine ==
    <<"D", "a", "t", "e", ":", " ", "0", "3", "-", "0", "4", "-", "2", "0",
      "2", "3">>
UndatedLine == <<"d", "a", "t", "e", ":", " ", "s", "o", "o", "n">>
DateInsideLine ==
    <<"o", "n", " ", "0", "5", "-", "0", "6", "-", "2", "0", "2", "3">>

BodyLinePool ==
    {<<"R", "e", "d", " ", "U", "n", "i", "o", "n">>,
     <<"P", "r", "e", "s", "s", " ", "R", "e", "l", "e", "a", "s", "e">>,
     <<"0", "1", "-", "0", "2", "-", "2", "0", "2", "3">>,
     <<"w", "e", " ", "a", "c", "t">>,
     DatedLine,
     UndatedLine,
     DateInsideLine}

\* line.strip() of every line of the pools, evaluated once
StripTable == [r \in LinePool \cup BodyLinePool |-> Strip(r)]

StripLine(r) == IF r \in DOMAIN StripTable THEN StripTable[r] ELSE Strip(r)

\* Classify of every stripped line of the pools, evaluated once
ClassTable ==
    [l \in {Strip(r) : r \in LinePool \cup BodyLinePool} |-> Classify(l)]

ClassOf(l) == IF l \in DOMAIN ClassTable THEN ClassTable[l] ELSE Classify(l)

\* the structure dict as first built
StructureInit ==
    [party_name |-> <<>>, committee |-> <<>>, press_release |-> FALSE,
     date |-> <<>>, title |-> <<>>, content_lines |-> <<>>]

\* the state of the parse: the dict and content_started
PState(st, cs) == [structure |-> st, content_started |-> cs]

\* ParseLine whose committee test lacks `and not content_started`
ParseLine_CommitteeAfterContent(ps, l) ==
    LET st == ps.structure
        c  == ClassOf(l)
    IN  IF st.party_name = <<>> /\ ~ps.content_started /\ c.party
        THEN PState([st EXCEPT !.party_name = l], ps.content_started)
        ELSE IF st.committee = <<>> /\ c.committee
        THEN PState([st EXCEPT !.committee = l], ps.content_started)
        ELSE IF c.press
        THEN PState([st EXCEPT !.press_release = TRUE], ps.content_started)
        ELSE IF c.dateline
        THEN PState(IF c.date # <<>> THEN [st EXCEPT !.date = c.date] ELSE st,
                    ps.content_started)
        ELSE PState([st EXCEPT !.content_lines = Append(@, l)], TRUE)

\* ParseLine that appends a line to content_lines only once content has
\* started
ParseLine_DropLeading(ps, l) ==
    LET st == ps.structure
        c  == ClassOf(l)
    IN  IF st.party_name = <<>> /\ ~ps.content_started /\ c.party
        THEN PState([st EXCEPT !.party_name = l], ps.content_started)
        ELSE IF st.committee = <<>> /\ ~ps.content_started /\ c.committee
        THEN PState([st EXCEPT !.committee = l], ps.content_started)
        ELSE IF c.press
        THEN PState([st EXCEPT !.press_release = TRUE], ps.content_started)
        ELSE IF c.dateline
        THEN PState(IF c.date # <<>> THEN [st EXCEPT !.date = c.date] ELSE st,
                    ps.content_started)
        ELSE IF ps.content_started
        THEN PState([st EXCEPT !.content_lines = Append(@, l)], TRUE)
        ELSE PState(st, TRUE)

\* ParseLine whose party test lacks `not structure["party_name"]`
ParseLine_Reassign(ps, l) ==
    LET st == ps.structure
        c  == ClassOf(l)
    IN  IF ~ps.content_started /\ c.party
        THEN PState([st EXCEPT !.party_name = l], ps.content_started)
        ELSE IF st.committee = <<>> /\ ~ps.content_started /\ c.committee
        THEN PState([st EXCEPT !.committee = l], ps.content_started)
        ELSE IF c.press
        THEN PState([st EXCEPT !.press_release = TRUE], ps.content_started)
        ELSE IF c.dateline
        THEN PState(IF c.date # <<>> THEN [st EXCEPT !.date = c.date] ELSE st,
                    ps.content_started)
        ELSE PState([st EXCEPT !.content_lines = Append(@, l)], TRUE)

\* ParseLine whose press-release and date tests hold only before the
\* content has started
ParseLine_RulesBeforeContent(ps, l) ==
    LET st == ps.structure
        c  == ClassOf(l)
    IN  IF st.party_name = <<>> /\ ~ps.content_started /\ c.party
        THEN PState([st EXCEPT !.party_name = l], ps.content_started)
        ELSE IF st.committee = <<>> /\ ~ps.content_started /\ c.committee
        THEN PState([st EXCEPT !.committee = l], ps.content_started)
        ELSE IF c.press /\ ~ps.content_started
        THEN PState([st EXCEPT !.press_release = TRUE], ps.content_started)
        ELSE IF c.dateline /\ ~ps.content_started
        THEN PState(IF c.date # <<>> THEN [st EXCEPT !.date = c.date] ELSE st,
                    ps.content_started)
        ELSE PState([st EXCEPT !.content_lines = Append(@, l)], TRUE)

\* one iteration of `for i, line in enumerate(lines)` on the stripped,
\* non-empty line l
ParseLine(ps, l) ==
    LET st == ps.structure
        c  == ClassOf(l)
    IN  IF st.party_name = <<>> /\ ~ps.content_started /\ c.party
        THEN PState([st EXCEPT !.party_name = l], ps.content_started)
        ELSE IF st.committee = <<>> /\ ~ps.content_started /\ c.committee
        THEN PState([st EXCEPT !.committee = l], ps.content_started)
        ELSE IF c.press
        THEN PState([st EXCEPT !.press_release = TRUE], ps.content_started)
        ELSE IF c.dateline
        THEN PState(IF c.date # <<>> THEN [st EXCEPT !.date = c.date] ELSE st,
                    ps.content_started)
        ELSE PState([st EXCEPT !.content_lines = Append(@, l)], TRUE)

\* title cut to TitleLimit characters without the "..."
CutTitle_NoEllipsis(t) ==
    IF Len(t) > TitleLimit THEN SubSeq(t, 1, TitleLimit) ELSE t

\* `if len(title) > 100: title = title[:100] + "..."`
CutTitle(t) ==
    IF Len(t) > TitleLimit
    THEN SubSeq(t, 1, TitleLimit) \o <<".", ".", ".">>
    ELSE t

\* after the loop: the title is taken from the first content line
ExtractTitle(st) ==
    IF st.content_lines # <<>> /\ st.title = <<>>
    THEN [st EXCEPT !.title = CutTitle(st.content_lines[1])]
    ELSE st

\* the parse state after the first k iterations of the loop over lines
RECURSIVE ParsePrefix(_, _)
ParsePrefix(lines, k) ==
    IF k = 0 THEN PState(StructureInit, FALSE)
    ELSE ParseLine(ParsePrefix(lines, k - 1), lines[k])

\* lines = [line.strip() for line in text.split("\n") if line.strip()]
RECURSIVE StrippedLines(_)
StrippedLines(raw) ==
    IF raw = <<>> THEN <<>>
    ELSE LET front == StrippedLines(SubSeq(raw, 1, Len(raw) - 1))
             l     == StripLine(raw[Len(raw)])
         IN  IF l # <<>> THEN Append(front, l) ELSE front

\* ------------------------------------------------------ detector inputs
\* characters of the texts fed to the detector on its own
Alphabet == {"a", " ", "(", ")", "/", "0", "1", "2"}

RECURSIVE TextsUpTo(_)
TextsUpTo(n) ==
    IF n = 0 THEN {<<>>}
    ELSE LET S == TextsUpTo(n - 1)
         IN  S \cup {Append(s, c) : s \in {x \in S : Len(x) = n - 1},
                                    c \in Alphabet}

\* ---------------------------------------------------------------- actions
\* no frontmatter has been built
FrontIdle ==
    /\ title = <<>>
    /\ hugo_date = <<>>

\* no process_messages_to_hugo run is in progress
RunIdle ==
    /\ run_texts = <<>>
    /\ run_media = <<>>
    /\ content_dir = {}
    /\ attempts = <<>>
    /\ group_index = 0
    /\ posts = <<>>
    /\ now = 0

\* no download_album_media call is in progress
MediaIdle ==
    /\ folder_name = <<>>
    /\ message_group = <<>>
    /\ album_messages = <<>>
    /\ single_messages = <<>>
    /\ image_count = 0
    /\ featured_image = <<>>
    /\ downloads = <<>>
    /\ index_file = FALSE

Init ==
    /\ messages = <<>>
    /\ grouped = <<>>
    /\ current_group = <<>>
    /\ expecting_continuation = FALSE
    /\ expected_next = 1
    /\ expected_total = 1
    /\ pc = "loop"
    /\ text = <<>>
    /\ continuation_match = NoMatch
    /\ raw_lines = <<>>
    /\ structure = StructureInit
    /\ content_started = FALSE
    /\ MediaIdle
    /\ RunIdle
    /\ FrontIdle

\* the loop body of group_messages on the next message of the stream
ProcessMessage ==
    /\ pc = "loop"
    /\ Len(messages) < MaxMsgs
    /\ \E t \in MsgTexts :
         LET st == GroupStep(Cur, Len(messages) + 1, t)
         IN  /\ messages' = Append(messages, t)
             /\ grouped' = st.grouped
             /\ current_group' = st.current_group
             /\ expecting_continuation' = st.expecting_continuation
             /\ expected_next' = st.expected_next
             /\ expected_total' = st.expected_total
    /\ UNCHANGED <<pc, text, continuation_match, raw_lines, structure,
                   content_started,
                   mediaVars,
                   runVars,
                   frontVars>>

\* end of the stream: flush the open group and return
Finish ==
    /\ pc = "loop"
    /\ grouped' = FinalFlush(Cur).grouped
    /\ pc' = "done"
    /\ UNCHANGED <<messages, current_group, expecting_continuation,
                   expected_next, expected_total, text, continuation_match,
                   raw_lines, structure, content_started,
                   mediaVars,
                   runVars,
                   frontVars>>

Next == ProcessMessage \/ Finish

Spec == Init /\ [][Next]_vars

\* ---- the detector on its own: any text over Alphabet up to MaxLen
InitDetect ==
    /\ messages = <<>>
    /\ grouped = <<>>
    /\ current_group = <<>>
    /\ expecting_continuation = FALSE
    /\ expected_next = 1
    /\ expected_total = 1
    /\ pc = "detect"
    /\ text \in TextsUpTo(MaxLen)
    /\ continuation_match = NoMatch
    /\ raw_lines = <<>>
    /\ structure = StructureInit
    /\ content_started = FALSE
    /\ MediaIdle
    /\ RunIdle
    /\ FrontIdle

\* text = message.text.strip(); continuation_match = re.search(..., text)
Detect ==
    /\ pc = "detect"
    /\ continuation_match' = ContinuationMatch(Strip(text))
    /\ pc' = "detected"
    /\ UNCHANGED <<messages, grouped, current_group, expecting_continuation,
                   expected_next, expected_total, text, raw_lines, structure,
                   content_started,
                   mediaVars,
                   runVars,
                   frontVars>>

NextDetect == Detect

SpecDetect == InitDetect /\ [][NextDetect]_vars

\* ---- parse_message_structure on its own: a text of up to MaxLines lines
InitParse ==
    /\ messages = <<>>
    /\ grouped = <<>>
    /\ current_group = <<>>
    /\ expecting_continuation = FALSE
    /\ expected_next = 1
    /\ expected_total = 1
    /\ pc = "parse"
    /\ text = <<>>
    /\ continuation_match = NoMatch
    /\ raw_lines = <<>>
    /\ structure = StructureInit
    /\ content_started = FALSE
    /\ MediaIdle
    /\ RunIdle
    /\ FrontIdle

\* the next line of the text: dropped when blank, else one loop iteration
ParseNextLine ==
    /\ pc = "parse"
    /\ Len(raw_lines) < MaxLines
    /\ \E r \in LinePool :
         LET l  == StripLine(r)
             ps == IF l = <<>>
                   THEN PState(structure, content_started)
                   ELSE ParseLine(PState(structure, content_started), l)
         IN  /\ raw_lines' = Append(raw_lines, r)
             /\ structure' = ps.structure
             /\ content_started' = ps.content_started
    /\ UNCHANGED <<messages, grouped, current_group, expecting_continuation,
                   expected_next, expected_total, pc, text, continuation_match,
                   mediaVars,
                   runVars,
                   frontVars>>

\* end of the text: extract the title and return the structure
ParseReturn ==
    /\ pc = "parse"
    /\ structure' = ExtractTitle(structure)
    /\ pc' = "parsed"
    /\ UNCHANGED <<messages, grouped, current_group, expecting_continuation,
                   expected_next, expected_total, text, continuation_match,
                   raw_lines, content_started,
                   mediaVars,
                   runVars,
                   frontVars>>

NextParse == ParseNextLine \/ ParseReturn

SpecParse == InitParse /\ [][NextParse]_vars

\* ---- parse_message_structure on texts with press-release and date lines
\* in the body
InitRules ==
    /\ messages = <<>>
    /\ grouped = <<>>
    /\ current_group = <<>>
    /\ expecting_continuation = FALSE
    /\ expected_next = 1
    /\ expected_total = 1
    /\ pc = "rules"
    /\ text = <<>>
    /\ continuation_match = NoMatch
    /\ raw_lines = <<>>
    /\ structure = StructureInit
    /\ content_started = FALSE
    /\ MediaIdle
    /\ RunIdle
    /\ FrontIdle

\* the parse state after the raw line r: dropped when blank, else one loop
\* iteration
AfterLine(ps, l) == IF l = <<>> THEN ps ELSE ParseLine(ps, l)

\* the next line of the text
RulesNextLine ==
    /\ pc = "rules"
    /\ Len(raw_lines) < MaxLines
    /\ \E r \in BodyLinePool :
         \E ps \in {AfterLine(PState(structure, content_started),
                              StripLine(r))} :
             /\ raw_lines' = Append(raw_lines, r)
             /\ structure' = ps.structure
             /\ content_started' = ps.content_started
    /\ UNCHANGED <<messages, grouped, current_group, expecting_continuation,
                   expected_next, expected_total, pc, text, continuation_match,
                   mediaVars,
                   runVars,
                   frontVars>>

\* end of the text: extract the title and return the structure
RulesReturn ==
    /\ pc = "rules"
    /\ structure' = ExtractTitle(structure)
    /\ pc' = "rules_done"
    /\ UNCHANGED <<messages, grouped, current_group, expecting_continuation,
                   expected_next, expected_total, text, continuation_match,
                   raw_lines, content_started,
                   mediaVars,
                   runVars,
                   frontVars>>

NextRules == RulesNextLine \/ RulesReturn

SpecRules == InitRules /\ [][NextRules]_vars

\* ---- download_album_media inside create_hugo_post: one group's media
\* characters of \w
IsWord(c) ==
    \/ IsDigit(c) \/ c = "_"
    \/ \E k \in 1..26 : Uppers[k] = c \/ Lowers[k] = c

\* re.sub(r"-+", "-", t)
RECURSIVE CollapseDashes(_)
CollapseDashes(t) ==
    IF Len(t) <= 1 THEN t
    ELSE LET rest == CollapseDashes(Tail(t))
         IN  IF t[1] = "-" /\ rest[1] = "-" THEN rest ELSE <<t[1]>> \o rest

\* t.strip("-")
StripDashes(t) ==
    LET keep == {i \in 1..Len(t) : t[i] # "-"}
        back == {i \in 1..Len(t) : t[Len(t) + 1 - i] # "-"}
    IN  IF keep = {} THEN <<>>
        ELSE SubSeq(t, MinOf(keep), Len(t) + 1 - MinOf(back))

\* clean_folder_name of lines 513-514
CleanFolderName(name) ==
    LET low    == Lower(name)
        dashed == [k \in 1..Len(low) |->
                      IF IsWord(low[k]) \/ low[k] = "-" THEN low[k] ELSE "-"]
    IN  StripDashes(CollapseDashes(dashed))

\* position of the last "." of a file name, 0 when it has no suffix
\* (no dot, or the only dot leads or ends the name)
SuffixDot(name) ==
    LET dots == {i \in 2..(Len(name) - 1) : name[i] = "."}
    IN  IF dots = {} \/ name[Len(name)] = "."
        THEN 0
        ELSE CHOOSE i \in dots : \A j \in dots : j <= i

\* Path(name).suffix
PathSuffix(name) ==
    IF SuffixDot(name) = 0 THEN <<>>
    ELSE SubSeq(name, SuffixDot(name), Len(name))

\* Path(name).stem
PathStem(name) ==
    IF SuffixDot(name) = 0 THEN name
    ELSE SubSeq(name, 1, SuffixDot(name) - 1)

\* file name pieces of the f-strings
FeaturedPrefix == <<"f", "e", "a", "t", "u", "r", "e", "d", "-">>
ImagePrefix == <<"i", "m", "a", "g", "e", "-">>
VideoPrefix == <<"v", "i", "d", "e", "o", "-">>
DocumentPrefix == <<"d", "o", "c", "u", "m", "e", "n", "t", "-">>
MediaPrefix == <<"m", "e", "d", "i", "a", "-">>
Jpg == <<".", "j", "p", "g">>
Jpeg == <<".", "j", "p", "e", "g">>
Png == <<".", "p", "n", "g">>
Gif == <<".", "g", "i", "f">>
Webp == <<".", "w", "e", "b", "p">>
Bmp == <<".", "b", "m", "p">>
Mp4 == <<".", "m", "p", "4">>
Bin == <<".", "b", "i", "n">>

\* mime types
ImageWord == <<"i", "m", "a", "g", "e">>
VideoWord == <<"v", "i", "d", "e", "o">>
ImageJpeg == ImageWord \o <<"/">> \o Tail(Jpeg)
ImagePng == ImageWord \o <<"/">> \o Tail(Png)
ImageGif == ImageWord \o <<"/">> \o Tail(Gif)
ImageWebp == ImageWord \o <<"/">> \o Tail(Webp)
ImageBmp == ImageWord \o <<"/">> \o Tail(Bmp)
VideoMp4 == VideoWord \o <<"/">> \o Tail(Mp4)
ApplicationPdf ==
    <<"a", "p", "p", "l", "i", "c", "a", "t", "i", "o", "n", "/", "p", "d", "f">>

\* ext_map.get(mime_type, ".jpg")
ExtMap(mime_type) ==
    IF mime_type = ImageJpeg THEN Jpg
    ELSE IF mime_type = ImagePng THEN Png
    ELSE IF mime_type = ImageGif THEN Gif
    ELSE IF mime_type = ImageWebp THEN Webp
    ELSE IF mime_type = ImageBmp THEN Bmp
    ELSE Jpg

\* img_extensions
ImgExtensions == {Jpg, Jpeg, Png, Gif, Webp, Bmp}

\* ---- the messages a group can hold
\* a message: media is "none", "photo" (MessageMediaPhoto), "document"
\* (MessageMediaDocument) or "other"; grouped_id 0 is no grouped_id;
\* file_name <<>> is no DocumentAttributeFilename
Message(media, grouped_id, mime_type, file_name) ==
    [media |-> media, grouped_id |-> grouped_id, mime_type |-> mime_type,
     file_name |-> file_name]

ReportPdf == <<"r", "e", "p", "o", "r", "t", ".", "p", "d", "f">>
PicJpeg == <<"p", "i", "c", ".", "j", "p", "e", "g">>

\* the message of each id
MessagePool ==
    << Message("photo", 0, <<>>, <<>>),
       Message("photo", 1, <<>>, <<>>),
       Message("other", 1, <<>>, <<>>),
       Message("photo", 1, <<>>, <<>>),
       Message("document", 0, ApplicationPdf, ReportPdf),
       Message("document", 2, ImagePng, <<>>),
       Message("document", 0, ApplicationPdf, ReportPdf),
       Message("other", 0, <<>>, <<>>),
       Message("document", 0, VideoMp4, <<>>),
       Message("photo", 1, <<>>, <<>>),
       Message("none", 0, <<>>, <<>>),
       Message("document", 2, ImageJpeg, PicJpeg) >>

MessageIds == DOMAIN MessagePool

\* the set of ids of a sequence
Range(q) == {q[k] : k \in DOMAIN q}

\* sequences of up to n distinct message ids
RECURSIVE GroupsUpTo(_)
GroupsUpTo(n) ==
    IF n = 0 THEN {<<>>}
    ELSE LET S == GroupsUpTo(n - 1)
             E == {ext \in {x \in S : Len(x) = n - 1} \X MessageIds :
                       ext[2] \notin Range(ext[1])}
         IN  S \cup {Append(ext[1], ext[2]) : ext \in E}

\* the ids of a set in ascending order
RECURSIVE Ascending(_)
Ascending(ids) ==
    IF ids = {} THEN <<>>
    ELSE LET lo == CHOOSE x \in ids : \A y \in ids : x <= y
         IN  <<lo>> \o Ascending(ids \ {lo})

\* a sort that leaves the list as it is
SortedById_Unsorted(q) == q

\* sorted(q, key=lambda x: x.id) and q.sort(key=lambda x: x.id)
SortedById(q) == Ascending(Range(q))

HasMedia(id) == MessagePool[id].media # "none"

InAlbum(id) == MessagePool[id].grouped_id # 0

\* album_groups.items() flattened: the albums in the order their first
\* message comes in the sorted list, each album in ascending id
RECURSIVE AlbumQueue(_, _)
AlbumQueue(sorted, seen) ==
    IF sorted = <<>> THEN <<>>
    ELSE LET id == Head(sorted)
             g  == MessagePool[id].grouped_id
             same(x) == MessagePool[x].grouped_id = g
         IN  IF HasMedia(id) /\ InAlbum(id) /\ g \notin seen
             THEN SortedById(SelectSeq(SelectSeq(sorted, HasMedia), same))
                  \o AlbumQueue(Tail(sorted), seen \cup {g})
             ELSE AlbumQueue(Tail(sorted), seen)

\* single_messages
SingleQueue(sorted) ==
    LET single(x) == HasMedia(x) /\ ~InAlbum(x)
    IN  SelectSeq(sorted, single)

\* ---- one message of download_album_media
\* what message.download_media did: raised, returned None, or wrote the
\* file (adding suffix to a path given without one)
Outcome(result, suffix) == [result |-> result, suffix |-> suffix]

Vcf == <<".", "v", "c", "f">>

\* outcomes of a download to a path that has an extension
NamedOutcomes == {Outcome("saved", <<>>), Outcome("error", <<>>)}

\* outcomes of a download to a path without extension
BareOutcomes ==
    {Outcome("saved", Jpg), Outcome("saved", Vcf), Outcome("none", <<>>),
     Outcome("error", <<>>)}

\* the record kept of one processed message: the filename assigned to it
\* (<<>> when none was), whether download_media was called, its result and
\* the name of the file written (<<>> when none was)
Download(id, pass, filename, called, out) ==
    [id |-> id, pass |-> pass, filename |-> filename, called |-> called,
     result |-> IF called THEN out.result ELSE "none",
     path |-> IF called /\ out.result = "saved"
              THEN filename \o out.suffix ELSE <<>>]

\* the effect of one loop iteration
Effect(count, featured, download) ==
    [image_count |-> count, featured_image |-> featured, download |-> download]

\* f"featured-{clean}{ext}" for the first image, f"image-{n}-{clean}{ext}" after
ImageName(n, clean, ext) ==
    IF n = 1 THEN FeaturedPrefix \o clean \o ext
    ELSE ImagePrefix \o DigitsOf(n) \o <<"-">> \o clean \o ext

\* the MessageMediaPhoto branch: featured_image is set after the download
PhotoBranch(count, featured, id, pass, clean, out) ==
    LET filename == ImageName(count + 1, clean, Jpg)
    IN  Effect(count + 1,
               IF out.result # "error" /\ featured = <<>>
               THEN filename ELSE featured,
               Download(id, pass, filename, TRUE, out))

\* base name and extension of a video or other document
BaseName(id, prefix) ==
    IF MessagePool[id].file_name # <<>>
    THEN PathStem(MessagePool[id].file_name)
    ELSE prefix \o DigitsOf(id)

ExtOf(id, default) ==
    IF MessagePool[id].file_name # <<>>
       /\ PathSuffix(MessagePool[id].file_name) # <<>>
    THEN PathSuffix(MessagePool[id].file_name)
    ELSE default

\* the MessageMediaDocument branch: an image document sets featured_image
\* before its download
DocumentBranch(count, featured, id, pass, clean, out) ==
    LET mime_type == MessagePool[id].mime_type
    IN  IF Contains(mime_type, ImageWord)
        THEN LET ext == IF MessagePool[id].file_name # <<>>
                        THEN ExtOf(id, Jpg) ELSE ExtMap(mime_type)
                 filename == ImageName(count + 1, clean, ext)
             IN  Effect(count + 1,
                        IF featured = <<>> THEN filename ELSE featured,
                        Download(id, pass, filename, TRUE, out))
        ELSE IF Contains(mime_type, VideoWord)
        THEN Effect(count, featured,
                    Download(id, pass,
                             BaseName(id, VideoPrefix) \o <<"-">> \o clean
                                 \o ExtOf(id, Mp4),
                             TRUE, out))
        ELSE Effect(count, featured,
                    Download(id, pass,
                             BaseName(id, DocumentPrefix) \o <<"-">> \o clean
                                 \o ExtOf(id, Bin),
                             TRUE, out))

\* the else branch without the image check of lines 764-767
OtherBranch_NoCount(count, featured, id, pass, clean, out) ==
    Effect(count, featured,
           Download(id, pass, MediaPrefix \o DigitsOf(id) \o <<"-">> \o clean,
                    TRUE, out))

\* the else branch of the single-message loop: any other media type
OtherBranch(count, featured, id, pass, clean, out) ==
    LET filename == MediaPrefix \o DigitsOf(id) \o <<"-">> \o clean
        actual   == filename \o out.suffix
        isImage  == /\ out.result = "saved"
                    /\ Lower(PathSuffix(actual)) \in ImgExtensions
    IN  Effect(IF isImage THEN count + 1 ELSE count,
               IF isImage /\ featured = <<>> THEN actual ELSE featured,
               Download(id, pass, filename, TRUE, out))

\* the body of `for message in album_messages`: no branch takes a media
\* type other than photo and document
AlbumBody(count, featured, id, clean, out) ==
    IF MessagePool[id].media = "photo"
    THEN PhotoBranch(count, featured, id, "album", clean, out)
    ELSE IF MessagePool[id].media = "document"
    THEN DocumentBranch(count, featured, id, "album", clean, out)
    ELSE Effect(count, featured, Download(id, "album", <<>>, FALSE, out))

\* the body of `for message in single_messages`
SingleBody(count, featured, id, clean, out) ==
    IF MessagePool[id].media = "photo"
    THEN PhotoBranch(count, featured, id, "single", clean, out)
    ELSE IF MessagePool[id].media = "document"
    THEN DocumentBranch(count, featured, id, "single", clean, out)
    ELSE OtherBranch(count, featured, id, "single", clean, out)

\* the outcomes download_media can have for a message in a loop
OutcomesOf(id, pass) ==
    IF MessagePool[id].media \in {"photo", "document"} THEN NamedOutcomes
    ELSE IF pass = "single" THEN BareOutcomes
    ELSE {Outcome("none", <<>>)}

\* `except Exception: continue` that leaves the loop instead
Continue_Abort(queue) == <<>>

\* the messages left after one iteration, also after `except: continue`
Continue(queue) == Tail(queue)

\* ---- the actions of one create_hugo_post call from line 418 on
\* no grouper, detector or parser run is in progress
TextIdle ==
    /\ messages = <<>>
    /\ grouped = <<>>
    /\ current_group = <<>>
    /\ expecting_continuation = FALSE
    /\ expected_next = 1
    /\ expected_total = 1
    /\ text = <<>>
    /\ continuation_match = NoMatch
    /\ raw_lines = <<>>
    /\ structure = StructureInit
    /\ content_started = FALSE

textVars == <<messages, grouped, current_group, expecting_continuation,
              expected_next, expected_total, text, continuation_match,
              raw_lines, structure, content_started>>

\* folder names handed to download_album_media
FolderNames == {<<"r", "e", "d", "-", "1">>}

InitMedia ==
    /\ TextIdle
    /\ pc = "media"
    /\ folder_name \in FolderNames
    /\ message_group \in GroupsUpTo(MaxMedia) \ {<<>>}
    /\ album_messages = <<>>
    /\ single_messages = <<>>
    /\ image_count = 0
    /\ featured_image = <<>>
    /\ downloads = <<>>
    /\ index_file = FALSE
    /\ RunIdle
    /\ FrontIdle

\* has_media of create_hugo_post
GroupHasMedia == \E k \in DOMAIN message_group : HasMedia(message_group[k])

\* has_media is false: download_album_media is not called
NoMedia ==
    /\ pc = "media"
    /\ ~GroupHasMedia
    /\ pc' = "returned"
    /\ UNCHANGED <<textVars, mediaVars,
                   runVars,
                   frontVars>>

\* lines 509-532: the counters, the sort and the split into albums and singles
StartDownload ==
    /\ pc = "media"
    /\ GroupHasMedia
    /\ image_count' = 0
    /\ featured_image' = <<>>
    /\ album_messages' = AlbumQueue(SortedById(message_group), {})
    /\ single_messages' = SingleQueue(SortedById(message_group))
    /\ pc' = "download"
    /\ UNCHANGED <<textVars, folder_name, message_group, downloads, index_file,
                   runVars,
                   frontVars>>

\* one iteration of the album loops of lines 535-641
DownloadAlbumMessage ==
    /\ pc = "download"
    /\ album_messages # <<>>
    /\ \E out \in OutcomesOf(Head(album_messages), "album") :
         LET e == AlbumBody(image_count, featured_image, Head(album_messages),
                            CleanFolderName(folder_name), out)
         IN  /\ image_count' = e.image_count
             /\ featured_image' = e.featured_image
             /\ downloads' = Append(downloads, e.download)
    /\ album_messages' = Continue(album_messages)
    /\ UNCHANGED <<textVars, pc, folder_name, message_group, single_messages,
                   index_file,
                   runVars,
                   frontVars>>

\* one iteration of the single-message loop of lines 644-773
DownloadSingleMessage ==
    /\ pc = "download"
    /\ album_messages = <<>>
    /\ single_messages # <<>>
    /\ \E out \in OutcomesOf(Head(single_messages), "single") :
         LET e == SingleBody(image_count, featured_image, Head(single_messages),
                             CleanFolderName(folder_name), out)
         IN  /\ image_count' = e.image_count
             /\ featured_image' = e.featured_image
             /\ downloads' = Append(downloads, e.download)
    /\ single_messages' = Continue(single_messages)
    /\ UNCHANGED <<textVars, pc, folder_name, message_group, album_messages,
                   index_file,
                   runVars,
                   frontVars>>

\* return featured_image
ReturnFeatured ==
    /\ pc = "download"
    /\ album_messages = <<>>
    /\ single_messages = <<>>
    /\ pc' = "returned"
    /\ UNCHANGED <<textVars, mediaVars,
                   runVars,
                   frontVars>>

\* lines 425-503: create_hugo_post writes index.md
WriteIndex ==
    /\ pc = "returned"
    /\ index_file' = TRUE
    /\ pc' = "posted"
    /\ UNCHANGED <<textVars, folder_name, message_group, album_messages,
                   single_messages, image_count, featured_image, downloads,
                   runVars,
                   frontVars>>

NextMedia ==
    \/ NoMedia
    \/ StartDownload
    \/ DownloadAlbumMessage
    \/ DownloadSingleMessage
    \/ ReturnFeatured
    \/ WriteIndex

SpecMedia == InitMedia /\ [][NextMedia]_vars

\* ---- process_messages_to_hugo: the folder and index.md of each group
\* re.sub(r"[^\w\s-]", "", l)
KeepWordSpaceDash(l) ==
    LET keep(c) == IsWord(c) \/ IsSpace(c) \/ c = "-"
    IN  SelectSeq(l, keep)

\* re.sub(r"[-\s]+", "-", l)
RECURSIVE JoinWithDashes(_)
JoinWithDashes(l) ==
    IF l = <<>> THEN <<>>
    ELSE LET rest == JoinWithDashes(Tail(l))
             sep(c) == c = "-" \/ IsSpace(c)
         IN  IF sep(l[1])
             THEN IF rest # <<>> /\ rest[1] = "-" THEN rest ELSE <<"-">> \o rest
             ELSE <<l[1]>> \o rest

\* two decimal digits
TwoDigits(n) == <<Digits[(n \div 10) + 1], Digits[(n % 10) + 1]>>

\* f"post_{datetime.now().strftime('%Y%m%d_%H%M%S')}" for a run started at
\* 2023-01-01 00:00:00
PostTimestamp(t) ==
    <<"p", "o", "s", "t", "_", "2", "0", "2", "3", "0", "1", "0", "1", "_",
      "0", "0">> \o TwoDigits(t \div 60) \o TwoDigits(t % 60)

\* days of the month m of the year y
DaysInMonth(m, y) ==
    IF m = 2
    THEN IF (y % 4 = 0 /\ y % 100 # 0) \/ y % 400 = 0 THEN 29 ELSE 28
    ELSE IF m \in {4, 6, 9, 11} THEN 30 ELSE 31

\* datetime.strptime(date, "%d-%m-%Y") does not raise (date is DD-MM-YYYY)
StrptimeOk(date) ==
    LET d == IntOf(SubSeq(date, 1, 2))
        m == IntOf(SubSeq(date, 4, 5))
        y == IntOf(SubSeq(date, 7, 10))
    IN  /\ Len(date) = 10
        /\ DateAt(date, 1)
        /\ y >= 1
        /\ m \in 1..12
        /\ d \in 1..DaysInMonth(m, y)

\* date_obj.strftime("%Y-%m-%d")
IsoDate(date) ==
    SubSeq(date, 7, 10) \o <<"-">> \o SubSeq(date, 4, 5) \o <<"-">>
        \o SubSeq(date, 1, 2)

\* lines 330-337: the cleaned first line; lines are the non-empty stripped
\* lines of text
Slug(lines) ==
    LET first_line == IF Len(lines[1]) > FolderLimit
                      THEN SubSeq(lines[1], 1, FolderLimit)
                      ELSE lines[1]
    IN  Lower(StripDashes(JoinWithDashes(KeepWordSpaceDash(first_line))))

\* generate_folder_name that names every folder after the time of the call
GenerateFolderName_Stamped(lines, date, t) ==
    IF date # <<>> /\ StrptimeOk(date)
    THEN IsoDate(date) \o <<"-">> \o PostTimestamp(t)
    ELSE PostTimestamp(t)

\* generate_folder_name(text, date) at the time t
GenerateFolderName(lines, date, t) ==
    IF lines = <<>> THEN PostTimestamp(t)
    ELSE LET name == IF Slug(lines) = <<>> THEN PostTimestamp(t)
                     ELSE Slug(lines)
         IN  IF date # <<>> /\ StrptimeOk(date)
             THEN IsoDate(date) \o <<"-">> \o name
             ELSE name

\* lines of the texts of a run
OrgLine == <<"R", "e", "d", " ", "U", "n", "i", "o", "n">>
DayLine == <<"0", "1", "-", "0", "2", "-", "2", "0", "2", "3">>
NoDayLine == <<"3", "1", "-", "0", "2", "-", "2", "0", "2", "3">>
ActLine == <<"w", "e", " ", "a", "c", "t">>
MoreLine == <<" ", "m", "o", "r", "e", "!">>
MarksLine == <<"!", "?">>

\* the combined texts a group of the run can have, as lines
RunTextPool ==
    { <<OrgLine, DayLine, ActLine>>,
      <<OrgLine, DayLine, MoreLine>>,
      <<OrgLine, NoDayLine, ActLine>>,
      <<OrgLine, <<>>, ActLine>>,
      <<ActLine>>,
      <<MoreLine, DayLine>>,
      <<MarksLine>>,
      <<LongLine, MoreLine>> }

\* runs of up to n groups
RECURSIVE RunsUpTo(_)
RunsUpTo(n) ==
    IF n = 0 THEN {<<>>}
    ELSE LET S == RunsUpTo(n - 1)
         IN  S \cup {Append(r, t) : r \in {x \in S : Len(x) = n - 1},
                                    t \in RunTextPool}

\* structure = self.parse_message_structure(combined_text)
ParseText(raw) ==
    LET lines == StrippedLines(raw)
    IN  ExtractTitle(ParsePrefix(lines, Len(lines)).structure)

\* the message ids a group with the given text can hold
MediaFor(raw) ==
    IF raw \in {<<OrgLine, DayLine, ActLine>>, <<ActLine>>}
    THEN {<<>>, <<4, 2>>}
    ELSE {<<>>}

\* the pass that handles the message
PassOf(id) == IF InAlbum(id) THEN "album" ELSE "single"

\* what download_media does for each message of the group
OutcomeChoices(group) ==
    {outs \in [Range(group) -> NamedOutcomes \cup BareOutcomes] :
        \A id \in Range(group) : outs[id] \in OutcomesOf(id, PassOf(id))}

\* the counters and the processed messages of download_album_media
MediaState(count, featured, done) ==
    [image_count |-> count, featured_image |-> featured, downloads |-> done]

\* the body of the loop of the pass on the message id
LoopBody(pass, acc, id, clean, out) ==
    IF pass = "album"
    THEN AlbumBody(acc.image_count, acc.featured_image, id, clean, out)
    ELSE SingleBody(acc.image_count, acc.featured_image, id, clean, out)

\* the counters and the processed messages after the effect e of one body
AfterBody(acc, e) ==
    MediaState(e.image_count, e.featured_image,
               Append(acc.downloads, e.download))

\* one of the two loops of download_album_media, run to its end
RECURSIVE DownloadLoop(_, _, _, _, _)
DownloadLoop(queue, pass, acc, clean, outs) ==
    IF queue = <<>> THEN acc
    ELSE DownloadLoop(Continue(queue), pass,
                      AfterBody(acc, LoopBody(pass, acc, Head(queue), clean,
                                              outs[Head(queue)])),
                      clean, outs)

\* the album loop, then the loop over the single messages
BothLoops(sorted, clean, outs) ==
    DownloadLoop(SingleQueue(sorted), "single",
                 DownloadLoop(AlbumQueue(sorted, {}), "album",
                              MediaState(0, <<>>, <<>>), clean, outs),
                 clean, outs)

\* download_album_media(message_group, folder_name, post_dir) as a whole
DownloadAlbumMedia(group, folder, outs) ==
    BothLoops(SortedById(group), CleanFolderName(folder), outs)

\* the file name matches the pattern image-*-*.jpg of post_dir.glob
GlobImage(name) ==
    /\ StartsWith(name, ImagePrefix)
    /\ Len(name) >= Len(ImagePrefix) + 1 + Len(Jpg)
    /\ MatchesAt(name, Len(name) - Len(Jpg) + 1, Jpg)
    /\ \E q \in (Len(ImagePrefix) + 1)..(Len(name) - Len(Jpg)) : name[q] = "-"

\* the gallery: post_dir.glob("image-*-*.jpg") over the files on disk
Gallery(files, folder) ==
    {f.file : f \in {x \in files : x.folder = folder /\ GlobImage(x.file)}}

\* a file on disk
File(folder, file) == [folder |-> folder, file |-> file]

IndexMd == <<"i", "n", "d", "e", "x", ".", "m", "d">>

\* the non-empty stripped lines and the parsed date of every text of
\* RunTextPool, evaluated once
TextTable ==
    [raw \in RunTextPool |->
        [lines |-> StrippedLines(raw), date |-> ParseText(raw).date]]

\* the times at which a call of the run can be made
CallTimes == 0..MaxGroups

\* generate_folder_name of every text of RunTextPool at every time of call,
\* evaluated once
FolderTable ==
    [raw \in RunTextPool |->
        [t \in CallTimes |->
            GenerateFolderName(TextTable[raw].lines, TextTable[raw].date, t)]]

\* generate_folder_name(combined_text, structure["date"]) at the time t
FolderOf(raw, t) == FolderTable[raw][t]

\* the record of one written index.md: the group, the folder, the image
\* gallery of the document and the files the group's own downloads wrote
Post(group, folder, gallery, saved) ==
    [group |-> group, folder |-> folder, gallery |-> gallery, saved |-> saved]

InitRun ==
    /\ TextIdle
    /\ MediaIdle
    /\ pc = "run"
    /\ run_texts \in RunsUpTo(MaxGroups)
    /\ run_media \in [DOMAIN run_texts -> {<<>>, <<4, 2>>}]
    /\ \A g \in DOMAIN run_texts : run_media[g] \in MediaFor(run_texts[g])
    /\ content_dir = {}
    /\ attempts = <<>>
    /\ group_index = 0
    /\ posts = <<>>
    /\ now = 0
    /\ FrontIdle

\* the run is interrupted although the loop goes on
Running_Interrupted == pc \in {"run", "interrupted"}

\* the loop of process_messages_to_hugo is running
Running == pc = "run"

\* the end of one try block: the group and whether an exception was caught
Attempt(group, raised) == [group |-> group, raised |-> raised]

\* the paths of the files the processed messages wrote
PathsOf(done) == {done[k].path : k \in DOMAIN done} \ {<<>>}

\* the files the downloads of the group write into the folder
SavedFiles(group, folder, outs) ==
    PathsOf(IF \E k \in DOMAIN group : HasMedia(group[k])
            THEN DownloadAlbumMedia(group, folder, outs).downloads
            ELSE <<>>)

\* one iteration of the loop of process_messages_to_hugo: create_hugo_post
\* names the folder, makes it if it is not there and writes index.md; the
\* clock may pass a second during the call
CreateHugoPost ==
    /\ Running
    /\ group_index < Len(run_texts)
    /\ LET raw == run_texts[group_index + 1]
           group == run_media[group_index + 1]
           folder == FolderOf(raw, now)
       IN  \E outs \in OutcomeChoices(group) :
             LET saved == SavedFiles(group, folder, outs)
                 files == content_dir \cup {File(folder, f) : f \in saved}
             IN  /\ posts' = Append(posts, Post(group_index + 1, folder,
                                                Gallery(files, folder), saved))
                 /\ content_dir' = files \cup {File(folder, IndexMd)}
    /\ attempts' = Append(attempts, Attempt(group_index + 1, FALSE))
    /\ group_index' = group_index + 1
    /\ now' \in {now, now + 1}
    /\ pc' = "run"
    /\ UNCHANGED <<textVars, mediaVars, run_texts, run_media,
                   frontVars>>

\* an exception in create_hugo_post that ends the loop
PostRaises_Abort ==
    /\ Running
    /\ group_index < Len(run_texts)
    /\ attempts' = Append(attempts, Attempt(group_index + 1, TRUE))
    /\ pc' = "run_done"
    /\ UNCHANGED <<textVars, mediaVars, run_texts, run_media, content_dir,
                   group_index, posts, now,
                   frontVars>>

\* one iteration in which create_hugo_post raises an Exception, before the
\* folder is made or when index.md is opened for writing: line 104 logs it
\* and the loop goes on
PostRaises ==
    /\ Running
    /\ group_index < Len(run_texts)
    /\ LET raw == run_texts[group_index + 1]
           group == run_media[group_index + 1]
           folder == FolderOf(raw, now)
       IN  \/ content_dir' = content_dir
           \/ \E outs \in OutcomeChoices(group) :
                 content_dir' = content_dir
                     \cup {File(folder, f) : f \in SavedFiles(group, folder, outs)}
    /\ attempts' = Append(attempts, Attempt(group_index + 1, TRUE))
    /\ group_index' = group_index + 1
    /\ pc' = "run"
    /\ UNCHANGED <<textVars, mediaVars, run_texts, run_media, posts, now,
                   frontVars>>

\* an external interrupt, between two groups or while the downloads of a
\* group are under way: it is no Exception, so it leaves the loop and
\* export_channel and reaches the handler of main
Interrupt ==
    /\ pc = "run"
    /\ \/ content_dir' = content_dir
       \/ /\ group_index < Len(run_texts)
          /\ LET raw == run_texts[group_index + 1]
                 group == run_media[group_index + 1]
                 folder == FolderOf(raw, now)
             IN  \E outs \in OutcomeChoices(group) :
                   content_dir' = content_dir
                       \cup {File(folder, f) :
                                f \in SavedFiles(group, folder, outs)}
    /\ pc' = "interrupted"
    /\ UNCHANGED <<textVars, mediaVars, run_texts, run_media, attempts,
                   group_index, posts, now,
                   frontVars>>

\* the loop is over
FinishRun ==
    /\ Running
    /\ group_index = Len(run_texts)
    /\ pc' = "run_done"
    /\ UNCHANGED <<textVars, mediaVars, runVars,
                   frontVars>>

NextRun == CreateHugoPost \/ PostRaises \/ Interrupt \/ FinishRun

SpecRun == InitRun /\ [][NextRun]_vars

\* ---- create_hugo_post: the frontmatter title and date
\* t.rstrip()
RStrip(t) ==
    LET keep == {i \in 1..Len(t) : ~IsSpace(t[i])}
    IN  IF keep = {} THEN <<>>
        ELSE SubSeq(t, 1, CHOOSE i \in keep : \A j \in keep : j <= i)

PressReleaseTitle ==
    <<"P", "r", "e", "s", "s", " ", "R", "e", "l", "e", "a", "s", "e">>

Ellipsis == <<".", ".", ".">>

\* lines 433-435 without the rstrip()
FrontTitle_NoRStrip(parsed) ==
    LET t == IF parsed # <<>> THEN parsed ELSE PressReleaseTitle
    IN  IF Len(t) > TitleShort
        THEN SubSeq(t, 1, IF Len(t) < TitleCut THEN Len(t) ELSE TitleCut)
                 \o Ellipsis
        ELSE t

\* lines 433-435: the title of the frontmatter from the parsed title
FrontTitle(parsed) ==
    LET t == IF parsed # <<>> THEN parsed ELSE PressReleaseTitle
    IN  IF Len(t) > TitleShort
        THEN RStrip(SubSeq(t, 1, IF Len(t) < TitleCut THEN Len(t) ELSE TitleCut))
                 \o Ellipsis
        ELSE t

\* a body line of n characters with a space at the positions of gaps
BodyLine(n, gaps) == [k \in 1..n |-> IF k \in gaps THEN " " ELSE "x"]

\* the places of the spaces in the first body line
GapChoices == {{}, {TitleShort}, {TitleCut}, {TitleCut - 1, TitleCut}}

\* the texts whose title is rendered: an organization line and one body line
InitTitle ==
    /\ messages = <<>>
    /\ grouped = <<>>
    /\ current_group = <<>>
    /\ expecting_continuation = FALSE
    /\ expected_next = 1
    /\ expected_total = 1
    /\ text = <<>>
    /\ continuation_match = NoMatch
    /\ \E n \in 0..MaxTitle : \E gaps \in GapChoices :
         raw_lines = <<OrgLine, BodyLine(n, gaps)>>
    /\ structure = StructureInit
    /\ content_started = FALSE
    /\ MediaIdle
    /\ RunIdle
    /\ FrontIdle
    /\ pc = "title"

\* structure = self.parse_message_structure(combined_text)
ParseTitle ==
    /\ pc = "title"
    /\ structure' = ParseText(raw_lines)
    /\ pc' = "title_parsed"
    /\ UNCHANGED <<messages, grouped, current_group, expecting_continuation,
                   expected_next, expected_total, text, continuation_match,
                   raw_lines, content_started, mediaVars, runVars, frontVars>>

\* lines 433-435
RenderTitle ==
    /\ pc = "title_parsed"
    /\ title' = FrontTitle(structure.title)
    /\ pc' = "title_done"
    /\ UNCHANGED <<textVars, mediaVars, runVars, hugo_date>>

NextTitle == ParseTitle \/ RenderTitle

SpecTitle == InitTitle /\ [][NextTitle]_vars

\* ---- create_hugo_post: the frontmatter date
\* datetime.now().strftime("%Y-%m-%d") for a run started at 2023-01-01,
\* t seconds after its start
Today(t) ==
    <<"2", "0", "2", "3", "-", "0", "1", "-">> \o TwoDigits(1 + (t \div 86400))

\* convert_date_format without the except clause: an invalid date raises
ConvertDateFormat_Raises(date_str, t) ==
    IF StrptimeOk(date_str) THEN IsoDate(date_str)
    ELSE <<"V", "a", "l", "u", "e", "E", "r", "r", "o", "r">>

\* convert_date_format(date_str) at the time t
ConvertDateFormat(date_str, t) ==
    IF StrptimeOk(date_str) THEN IsoDate(date_str) ELSE Today(t)

\* the two-digit days and months and the years of the dates converted
DayPool == {<<"0", "0">>, <<"0", "1">>, <<"2", "8">>, <<"2", "9">>,
            <<"3", "0">>, <<"3", "1">>, <<"3", "2">>, <<"9", "9">>}

MonthPool == {<<"0", "0">>, <<"0", "1">>, <<"0", "2">>, <<"0", "4">>,
              <<"1", "2">>, <<"1", "3">>, <<"9", "9">>}

YearPool == {<<"0", "0", "0", "0">>, <<"1", "9", "0", "0">>,
             <<"2", "0", "0", "0">>, <<"2", "0", "2", "3">>,
             <<"2", "0", "2", "4">>}

\* the dates the pattern \d{2}-\d{2}-\d{4} of the parser can hand over
DatePool ==
    {dd \o <<"-">> \o mm \o <<"-">> \o yyyy :
        dd \in DayPool, mm \in MonthPool, yyyy \in YearPool}

\* the times of the call: on the first and on the second day of the run
ClockPool == {0, 86400}

InitDate ==
    /\ messages = <<>>
    /\ grouped = <<>>
    /\ current_group = <<>>
    /\ expecting_continuation = FALSE
    /\ expected_next = 1
    /\ expected_total = 1
    /\ text = <<>>
    /\ continuation_match = NoMatch
    /\ raw_lines = <<>>
    /\ \E date \in DatePool : structure = [StructureInit EXCEPT !.date = date]
    /\ content_started = FALSE
    /\ MediaIdle
    /\ run_texts = <<>>
    /\ run_media = <<>>
    /\ content_dir = {}
    /\ attempts = <<>>
    /\ group_index = 0
    /\ posts = <<>>
    /\ now \in ClockPool
    /\ FrontIdle
    /\ pc = "date"

\* hugo_date = self.convert_date_format(structure["date"])
ConvertDate ==
    /\ pc = "date"
    /\ hugo_date' = ConvertDateFormat(structure.date, now)
    /\ pc' = "date_done"
    /\ UNCHANGED <<textVars, mediaVars, runVars, title>>

NextDate == ConvertDate

SpecDate == InitDate /\ [][NextDate]_vars

\* ================================================================= claims
\* the marker of the message at position p of the stream consumed so far
MarkerAt(p) == IF HasText(messages[p]) THEN MarkerOf(messages[p]) ELSE NoMatch

\* the ids p, p+1, ..., p+n-1 in that order
IdRange(p, n) == [k \in 1..n |-> p + k - 1]

\* positions p..p+n-1 carry the markers 1/n, 2/n, ..., n/n
SeriesAt(p, n) ==
    /\ n >= 2
    /\ p + n - 1 <= Len(messages)
    /\ \A k \in 1..n :
         /\ MarkerAt(p + k - 1).matched
         /\ MarkerAt(p + k - 1).current_num = k
         /\ MarkerAt(p + k - 1).total_num = n

\* C1: n >= 2 consecutive messages marked 1/n, 2/n, ..., n/n are emitted as
\* exactly one group holding exactly those n messages in that order,
\* whatever messages came before: the group occurs once in grouped, and no
\* other group, nor the open group, holds any of the n messages.
C1_CompleteSeriesOneGroup ==
    \A p \in 1..Len(messages), n \in 2..Len(messages) :
        SeriesAt(p, n) =>
            /\ Cardinality({g \in DOMAIN grouped :
                               grouped[g] = IdRange(p, n)}) = 1
            /\ \A g \in DOMAIN grouped :
                 \A j \in 1..Len(grouped[g]) :
                     grouped[g][j] \in p..(p + n - 1) =>
                         grouped[g] = IdRange(p, n)
            /\ \A j \in 1..Len(current_group) :
                 current_group[j] \notin p..(p + n - 1)

\* C1 witness: a series 1/2, 2/2 after an earlier text message has been
\* grouped and the function has returned
C1_Witness ==
    /\ pc = "done"
    /\ \E p \in 2..Len(messages) :
         /\ SeriesAt(p, 2)
         /\ HasText(messages[p - 1])
         /\ \E g \in DOMAIN grouped : grouped[g] = IdRange(p, 2)

\* the message being processed by the step messages -> messages'
NewId == Len(messages) + 1

IsStep == pc = "loop" /\ Len(messages') = Len(messages) + 1

\* in state st, text t carries a marker with index > 1 that is not the
\* expected (index, total)
Broken(st, t) ==
    /\ HasText(t)
    /\ MarkerOf(t).matched
    /\ MarkerOf(t).current_num > 1
    /\ ~ (/\ st.expecting_continuation
          /\ MarkerOf(t).current_num = st.expected_next
          /\ MarkerOf(t).total_num = st.expected_total)

\* the numbers of the markers of a stream, <<0, 0>> where there is none
MarkerSeq(msgs) ==
    [p \in 1..Len(msgs) |->
        IF HasText(msgs[p]) /\ MarkerOf(msgs[p]).matched
        THEN <<MarkerOf(msgs[p]).current_num, MarkerOf(msgs[p]).total_num>>
        ELSE <<0, 0>>]

\* C2: a marker with index > 1 that does not match the expected
\* (index, total) closes and emits the open group (if any), emits the
\* message as a one-element group and leaves the grouper IDLE; a following
\* message that carries the marker the closed series was waiting for is
\* emitted alone as well; the stream 1/3, 3/3 returns [1/3], [3/3].
C2_BrokenSequence ==
    [][ /\ (IsStep /\ Broken(Cur, messages'[NewId])) =>
            /\ grouped' = Append(SaveGroup(grouped, current_group), <<NewId>>)
            /\ current_group' = <<>>
            /\ expecting_continuation' = FALSE
        /\ (/\ IsStep
            /\ Len(messages) >= 2
            /\ LET before == RunLoop(messages, Len(messages) - 1)
               IN  /\ before.expecting_continuation
                   /\ Broken(before, messages[Len(messages)])
                   /\ HasText(messages'[NewId])
                   /\ MarkerOf(messages'[NewId]).matched
                   /\ MarkerOf(messages'[NewId]).current_num = before.expected_next
                   /\ MarkerOf(messages'[NewId]).total_num = before.expected_total) =>
            /\ grouped' = Append(grouped, <<NewId>>)
            /\ current_group' = <<>>
        /\ (pc' = "done" /\ MarkerSeq(messages') = << <<1, 3>>, <<3, 3>> >>) =>
            grouped' = << <<1>>, <<2>> >>
      ]_vars

\* C2 witness: 1/3, 3/3, 2/3 have been processed: the series was broken by
\* 3/3 and the marker 2/3 it was waiting for arrived afterwards
C2_Witness ==
    /\ Len(messages) >= 3
    /\ \E p \in 2..(Len(messages) - 1) :
         /\ RunLoop(messages, p - 1).current_group # <<>>
         /\ Broken(RunLoop(messages, p - 1), messages[p])
         /\ MarkerAt(p + 1).matched
         /\ MarkerAt(p + 1).current_num = RunLoop(messages, p - 1).expected_next
         /\ MarkerAt(p + 1).total_num = RunLoop(messages, p - 1).expected_total

\* the markers of group g of grouped are exactly 1/t, 2/t, ..., Len/t
PrefixOfSeries(g, t) ==
    \A j \in 1..Len(grouped[g]) :
        /\ MarkerAt(grouped[g][j]).matched
        /\ MarkerAt(grouped[g][j]).current_num = j
        /\ MarkerAt(grouped[g][j]).total_num = t

\* C3 as stated: every emitted group is (a) one message without a marker or
\* (b) a complete series: markers 1..total in increasing order, one total,
\* no gaps.
C3_EveryGroupComplete ==
    \A g \in DOMAIN grouped :
        \/ Len(grouped[g]) = 1 /\ ~MarkerAt(grouped[g][1]).matched
        \/ Len(grouped[g]) >= 1 /\ PrefixOfSeries(g, Len(grouped[g]))

\* C3 amended: every emitted group is (a) exactly one message, with or
\* without a marker, or (b) messages whose markers are 1..k in increasing
\* order with one total t and no gaps, 2 <= k <= t (a complete series or a
\* gap-free prefix of one).
C3_EveryGroupSingleOrPrefix ==
    \A g \in DOMAIN grouped :
        \/ Len(grouped[g]) = 1
        \/ /\ Len(grouped[g]) >= 2
           /\ \E t \in Len(grouped[g])..MaxOf({Len(grouped[g]), expected_total}
                      \cup {MarkerAt(q).total_num : q \in 1..Len(messages)}) :
                  PrefixOfSeries(g, t)

\* C3 witness: the returned groups hold a complete series of 2, a prefix
\* 1/3, 2/3 of a series or a lone marked message next to them
C3_Witness ==
    /\ pc = "done"
    /\ \E g \in DOMAIN grouped :
         Len(grouped[g]) = 2 /\ PrefixOfSeries(g, 3)
    /\ \E g \in DOMAIN grouped :
         Len(grouped[g]) = 1 /\ MarkerAt(grouped[g][1]).matched

\* C4: the groups are ordered by the position of their first message, the
\* messages of a group keep their input order, and in a group of several
\* messages the marker index increases.
C4_ChronologicalOrder ==
    /\ \A g \in DOMAIN grouped :
         /\ Len(grouped[g]) >= 1
         /\ \A j \in 1..Len(grouped[g]) : \A k \in 1..Len(grouped[g]) :
              j < k =>
                  /\ grouped[g][j] < grouped[g][k]
                  /\ MarkerAt(grouped[g][j]).current_num
                         < MarkerAt(grouped[g][k]).current_num
    /\ \A g \in DOMAIN grouped : \A h \in DOMAIN grouped :
         g < h => grouped[g][1] < grouped[h][1]

\* C4 witness: an open series of two messages was closed by a message
\* without a marker and the function returned both groups
C4_Witness ==
    /\ pc = "done"
    /\ Len(grouped) >= 2
    /\ \E g \in 1..(Len(grouped) - 1) :
         /\ Len(grouped[g]) >= 2
         /\ ~MarkerAt(grouped[g + 1][1]).matched

\* the stream msgs with the text at position p replaced by a 1/1 marker text
WithOneOfOne(msgs, p) == [msgs EXCEPT ![p] = MarkerText(1, 1)]

\* C5: replacing a message that has no marker by a 1/1 message, at any
\* position of the stream, gives the same emitted groups, the same open
\* group and the same IDLE/COLLECTING state after every prefix, and the same
\* returned partition; right after either message the grouper is IDLE and
\* the message is a one-element group.
C5_OneOfOneLikeNoMarker ==
    \A p \in 1..Len(messages) :
        (HasText(messages[p]) /\ ~MarkerOf(messages[p]).matched) =>
            LET other == WithOneOfOne(messages, p)
                twin  == RunLoop(other, Len(other))
                atP   == RunLoop(other, p)
            IN  /\ pc = "loop" =>
                     /\ grouped = twin.grouped
                     /\ current_group = twin.current_group
                     /\ expecting_continuation = twin.expecting_continuation
                /\ pc = "done" => grouped = GroupMessages(other)
                /\ atP.current_group = <<>>
                /\ ~atP.expecting_continuation
                /\ atP.grouped[Len(atP.grouped)] = <<p>>
                /\ RunLoop(messages, p).current_group = <<>>
                /\ ~RunLoop(messages, p).expecting_continuation
                /\ RunLoop(messages, p).grouped = atP.grouped

\* C5 witness: a message without a marker arrived while a series of 3 was
\* open and markers with index > 1 followed it
C5_Witness ==
    /\ Len(messages) >= 3
    /\ \E p \in 2..(Len(messages) - 1) :
         /\ HasText(messages[p]) /\ ~MarkerOf(messages[p]).matched
         /\ RunLoop(messages, p - 1).expecting_continuation
         /\ MarkerAt(p + 1).matched
         /\ MarkerAt(p + 1).current_num = RunLoop(messages, p - 1).expected_next
         /\ MarkerAt(p + 1).total_num = RunLoop(messages, p - 1).expected_total

\* C6: when the stream ends while a series is open, the open group is
\* emitted as it is as the last returned group, and every text message of
\* the stream is in a returned group; the stream 1/2 returns [1/2].
C6_EndOfStreamFlush ==
    pc = "done" =>
        /\ current_group # <<>> =>
              /\ grouped # <<>>
              /\ grouped[Len(grouped)] = current_group
        /\ \A p \in 1..Len(messages) :
              HasText(messages[p]) =>
                  \E g \in DOMAIN grouped : \E j \in 1..Len(grouped[g]) :
                      grouped[g][j] = p
        /\ MarkerSeq(messages) = << <<1, 2>> >> => grouped = << <<1>> >>

\* C6 witness: the function returned while the series 1/3, 2/3 was open,
\* after an earlier group had been emitted
C6_Witness ==
    /\ pc = "done"
    /\ expecting_continuation
    /\ Len(current_group) = 2
    /\ Len(grouped) >= 2

\* the text of a message is empty ("") or absent (None)
EmptyOrAbsent(t) == t = <<>> \/ t = None

\* C7: a message with empty or absent text leaves grouped, the open group,
\* expecting_continuation, expected_next and expected_total unchanged and is
\* in no group; 1/2, empty, 2/2 returns the one group [1/2, 2/2].
C7_EmptyTextSkipped ==
    [][ /\ (IsStep /\ EmptyOrAbsent(messages'[NewId])) =>
            UNCHANGED <<grouped, current_group, expecting_continuation,
                        expected_next, expected_total>>
        /\ \A g \in DOMAIN grouped' : \A j \in 1..Len(grouped'[g]) :
              ~EmptyOrAbsent(messages'[grouped'[g][j]])
        /\ \A j \in 1..Len(current_group') :
              ~EmptyOrAbsent(messages'[current_group'[j]])
        /\ (/\ pc' = "done"
            /\ MarkerSeq(messages') = << <<1, 2>>, <<0, 0>>, <<2, 2>> >>
            /\ EmptyOrAbsent(messages'[2])) =>
            grouped' = << <<1, 3>> >>
      ]_vars

\* C7 witness: a series 1/2, (absent text), 2/2 was grouped into one group
C7_Witness ==
    /\ pc = "done"
    /\ \E p \in 1..(Len(messages) - 2) :
         /\ MarkerAt(p).matched /\ MarkerAt(p).current_num = 1
         /\ MarkerAt(p).total_num = 2
         /\ messages[p + 1] = None
         /\ MarkerAt(p + 2).matched /\ MarkerAt(p + 2).current_num = 2
         /\ \E g \in DOMAIN grouped : grouped[g] = <<p, p + 2>>

\* a marker is a pair of positive integers with index <= total
WellFormed(m) ==
    m.current_num >= 1 /\ m.total_num >= 1 /\ m.current_num <= m.total_num

\* C8 as stated: every marker the detector reports for a message of the
\* stream is a pair of positive integers with index <= total.
C8_MarkersWellFormed ==
    \A p \in 1..Len(messages) :
        MarkerAt(p).matched => WellFormed(MarkerAt(p))

\* C8 amended: every marker on which the grouper opens a series or appends
\* a continuation is a pair of positive integers with index <= total and
\* total >= 2; a reported marker that is not such a pair (5/3, 0/3, 1/0) is
\* handled exactly as a message without a marker: the open group is closed
\* and emitted, the message is emitted alone and the grouper is IDLE.
C8_ActedOnMarkersWellFormed ==
    [][ (IsStep /\ HasText(messages'[NewId])
                /\ MarkerOf(messages'[NewId]).matched) =>
            LET m == MarkerOf(messages'[NewId])
            IN  /\ (\/ current_group' # <<>>
                    \/ /\ grouped' # <<>>
                       /\ Len(grouped'[Len(grouped')]) >= 2
                       /\ grouped'[Len(grouped')][Len(grouped'[Len(grouped')])]
                              = NewId) =>
                       WellFormed(m) /\ m.total_num >= 2
                /\ ~WellFormed(m) =>
                       /\ grouped' = Append(SaveGroup(grouped, current_group),
                                            <<NewId>>)
                       /\ current_group' = <<>>
                       /\ expecting_continuation' = FALSE
      ]_vars

\* C8 witness: a token with index > total, one with index 0 and 1/0 have
\* been processed, each emitted alone
C8_Witness ==
    /\ Len(messages) >= 3
    /\ Len(grouped) >= 3
    /\ \E p \in 1..Len(messages) :
         MarkerAt(p).matched /\ MarkerAt(p).current_num > MarkerAt(p).total_num
                             /\ MarkerAt(p).total_num >= 1
    /\ \E p \in 1..Len(messages) :
         MarkerAt(p).matched /\ MarkerAt(p).current_num = 0
    /\ \E p \in 1..Len(messages) :
         MarkerAt(p).matched /\ MarkerAt(p).total_num = 0

\* the digits of t that end at position e, as far back as digits go
DigitRunBack(t, e) ==
    LET starts == {q \in 1..(e + 1) : \A r \in q..e : IsDigit(t[r])}
    IN  SubSeq(t, MinOf(starts), e)

\* the trimmed text s read from its end: an optional ")", digits, "/",
\* digits
TrailingMarker(s) ==
    LET e     == IF s # <<>> /\ s[Len(s)] = ")" THEN Len(s) - 1 ELSE Len(s)
        total == DigitRunBack(s, e)
        slash == e - Len(total)
        index == DigitRunBack(s, slash - 1)
    IN  IF /\ e >= 1
           /\ total # <<>>
           /\ slash >= 1
           /\ s[slash] = "/"
           /\ index # <<>>
        THEN [matched |-> TRUE, current_num |-> IntOf(index),
              total_num |-> IntOf(total)]
        ELSE NoMatch

\* C9: the detector matches exactly when the trimmed text ends with digits,
\* "/", digits, optionally parenthesized, and then returns that (index,
\* total) pair; "(1/2)" gives (1, 2) and "Statement (2/3)" gives (2, 3);
\* "1/2 a" and "2/3 more" (pattern before the end only) give no marker.
C9_DetectorTrailingOnly ==
    pc = "detected" =>
        /\ continuation_match = TrailingMarker(Strip(text))
        /\ text = <<"(", "1", "/", "2", ")">> =>
              /\ continuation_match.matched
              /\ continuation_match.current_num = 1
              /\ continuation_match.total_num = 2
        /\ text = <<"1", "/", "2", " ", "a">> => ~continuation_match.matched
        /\ DetectMarker(<<"S", "t", "a", "t", "e", "m", "e", "n", "t", " ", "(", "2", "/", "3", ")">>)
              = [matched |-> TRUE, current_num |-> 2, total_num |-> 3]
        /\ ~DetectMarker(<<"2", "/", "3", " ", "m", "o", "r", "e">>).matched

\* C9 witness: a text with words before a parenthesized marker matched
C9_Witness ==
    /\ pc = "detected"
    /\ text = <<"a", "(", "2", "/", "1">>
    /\ continuation_match.matched
    /\ continuation_match.current_num = 2

\* the non-empty trimmed lines of the text read so far
Lines == StrippedLines(raw_lines)

\* the lines are: an organization line, a sub-unit line, a press-release
\* line, a DD-MM-YYYY date line, then one or more body lines that match
\* neither the press-release rule nor the date rule
HeaderThenBody ==
    /\ Len(Lines) >= 5
    /\ ClassOf(Lines[1]).party
    /\ ClassOf(Lines[2]).committee
    /\ ClassOf(Lines[3]).press
    /\ DateAt(Lines[4], 1) /\ ~ClassOf(Lines[4]).press
    /\ \A k \in 5..Len(Lines) :
         ~ClassOf(Lines[k]).press /\ ~ClassOf(Lines[k]).dateline

\* the fields other than the title that C10 names
HeaderFieldsParsed ==
    /\ structure.party_name = Lines[1]
    /\ structure.committee = Lines[2]
    /\ structure.press_release = TRUE
    /\ structure.date = SubSeq(Lines[4], 1, 10)
    /\ structure.content_lines = SubSeq(Lines, 5, Len(Lines))

IsParseStep == pc = "parse" /\ Len(raw_lines') = Len(raw_lines) + 1

\* that line, trimmed
NewLine == StripLine(raw_lines'[Len(raw_lines')])

\* the line is a press-release line or a date line without a sub-unit keyword
PressOrDate(l) ==
    ~ClassOf(l).committee /\ (ClassOf(l).press \/ ClassOf(l).dateline)

\* the line has no sub-unit keyword and is neither a press-release line nor
\* a date line: with the organization set it is a body line
PlainBody(l) ==
    ~ClassOf(l).committee /\ ~ClassOf(l).press /\ ~ClassOf(l).dateline

\* C11: with the organization set and the sub-unit not yet set, a line with
\* a sub-unit keyword becomes subUnit as long as content has not started; a
\* press-release or date line leaves content not started, so it does not
\* block the sub-unit line after it; a body line starts the content, and
\* from then on neither subUnit nor organization is ever assigned, so
\* subUnit stays empty for the rest of the text.
C11_SubUnitBlockedOnlyByBody ==
    [][ /\ (/\ IsParseStep
            /\ NewLine # <<>>
            /\ structure.party_name # <<>>
            /\ structure.committee = <<>>
            /\ ~content_started) =>
               /\ ClassOf(NewLine).committee =>
                      structure'.committee = NewLine /\ ~content_started'
               /\ PressOrDate(NewLine) =>
                      /\ ~content_started'
                      /\ structure'.committee = <<>>
                      /\ structure'.party_name = structure.party_name
               /\ PlainBody(NewLine) =>
                      content_started' /\ structure'.committee = <<>>
        /\ content_started =>
               /\ content_started'
               /\ structure'.committee = structure.committee
               /\ structure'.party_name = structure.party_name
        /\ pc' = "parsed" =>
             LET L == StrippedLines(raw_lines')
             IN  \A k \in 2..Len(L) :
                   (/\ ClassOf(L[1]).party
                    /\ ClassOf(L[k]).committee
                    /\ \A j \in 2..(k - 1) : ~ClassOf(L[j]).committee) =>
                       /\ (\A j \in 2..(k - 1) : PressOrDate(L[j])) =>
                              structure'.committee = L[k]
                       /\ (\E j \in 2..(k - 1) : PlainBody(L[j])) =>
                              structure'.committee = <<>>
      ]_vars

\* C11 witness: an organization line, a press-release line, a date line and
\* then a sub-unit line were parsed, and the sub-unit line became subUnit
C11_Witness ==
    /\ pc = "parsed"
    /\ Len(Lines) >= 4
    /\ ClassOf(Lines[1]).party
    /\ PressOrDate(Lines[2]) /\ ClassOf(Lines[2]).press
    /\ PressOrDate(Lines[3]) /\ ClassOf(Lines[3]).dateline
    /\ structure.committee = Lines[4]

\* in the state ps no rule of 1-4 takes the line l
NoRuleTakes(ps, l) ==
    /\ ~(ps.structure.party_name = <<>> /\ ClassOf(l).party)
    /\ ~(ps.structure.committee = <<>> /\ ClassOf(l).committee)
    /\ ~ClassOf(l).press
    /\ ~ClassOf(l).dateline

\* line k is a leading line that none of rules 1-4 takes, before content
\* has started
LeadingUnclassified(k) ==
    /\ ~ParsePrefix(Lines, k - 1).content_started
    /\ NoRuleTakes(ParsePrefix(Lines, k - 1), Lines[k])

\* C12 as stated: a leading line that matches none of rules 1-4 and comes
\* before content has started is dropped: it is not in bodyLines and it is
\* not the title.
C12_LeadingLineDropped ==
    pc = "parsed" =>
        \A k \in 1..Len(Lines) :
            LeadingUnclassified(k) =>
                /\ \A j \in 1..Len(structure.content_lines) :
                      structure.content_lines[j] # Lines[k]
                /\ structure.title # Lines[k]

\* C12 amended: a leading line that matches none of rules 1-4 and comes
\* before content has started is not dropped: it becomes the first entry of
\* bodyLines, starts the content, and the returned title is that first
\* entry (cut to 100 characters and "..." when it is longer).
C12_LeadingLineStartsBody ==
    [][ /\ (/\ IsParseStep
            /\ NewLine # <<>>
            /\ ~content_started
            /\ NoRuleTakes(PState(structure, content_started), NewLine)) =>
               /\ structure'.content_lines = <<NewLine>>
               /\ content_started'
        /\ (pc' = "parsed" /\ structure'.content_lines # <<>>) =>
               LET first == structure'.content_lines[1]
               IN  structure'.title =
                       IF Len(first) > TitleLimit
                       THEN SubSeq(first, 1, TitleLimit) \o <<".", ".", ".">>
                       ELSE first
      ]_vars

\* C12 witness: the first line of the text matched none of rules 1-4 and
\* was returned as the first body line and as the title, before more lines
C12_Witness ==
    /\ pc = "parsed"
    /\ Len(Lines) >= 2
    /\ LeadingUnclassified(1)
    /\ structure.content_lines[1] = Lines[1]
    /\ structure.title = Lines[1]

\* ---- claims about download_album_media
\* the call has returned
MediaDone == pc \in {"returned", "posted"}

\* the message is an image item: a photo or a document with an image mime type
IsImageItem(id) ==
    \/ MessagePool[id].media = "photo"
    \/ /\ MessagePool[id].media = "document"
       /\ Contains(MessagePool[id].mime_type, ImageWord)

\* C13: within one group every media item that is given a filename is given
\* a distinct one, for every mix of kinds, with and without original
\* filenames.
C13_DistinctFilenames ==
    \A i \in DOMAIN downloads :
        \A j \in DOMAIN downloads :
            (i < j /\ downloads[i].filename # <<>>) =>
                downloads[i].filename # downloads[j].filename

\* positions of the processed image items, in processing order
ImagePositions == {k \in DOMAIN downloads : IsImageItem(downloads[k].id)}

\* C14: for every pattern of download failures the returned featured image
\* is the filename assigned to the first image item in processing order,
\* and it is empty only when the group has no image item.
C14_FeaturedIsFirstImage ==
    MediaDone =>
        /\ ImagePositions # {} =>
               \E k \in ImagePositions :
                   /\ \A j \in ImagePositions : k <= j
                   /\ \/ featured_image = downloads[k].filename
                      \/ \E j \in 1..(k - 1) : downloads[j].path = featured_image
        /\ featured_image = <<>> =>
               \A k \in DOMAIN message_group : ~IsImageItem(message_group[k])

\* the ids of the group that carry media
MediaIds == {id \in Range(message_group) : HasMedia(id)}

C16_OtherKindsDownloaded ==
    \A k \in DOMAIN downloads :
        MessagePool[downloads[k].id].media = "other" =>
            /\ downloads[k].called
            /\ downloads[k].filename =
                   MediaPrefix \o DigitsOf(downloads[k].id) \o <<"-">>
                       \o CleanFolderName(folder_name)

\* the filename assigned to the message id (<<>> when it was not processed)
FilenameOf(id) ==
    IF \E k \in DOMAIN downloads : downloads[k].id = id
    THEN downloads[CHOOSE k \in DOMAIN downloads : downloads[k].id = id].filename
    ELSE <<>>

\* the lowest id of the group's media messages in album g
ClusterFirst(g) ==
    CHOOSE x \in MediaIds :
        /\ MessagePool[x].grouped_id = g
        /\ \A y \in MediaIds : MessagePool[y].grouped_id = g => x <= y

\* a, b, c are three photos of one album cluster of the group, and every
\* other album image item of the group is processed after them
ThreeAlbumPhotos(a, b, c) ==
    /\ a < b /\ b < c
    /\ \A x \in {a, b, c} : MessagePool[x].media = "photo" /\ InAlbum(x)
    /\ MessagePool[a].grouped_id = MessagePool[b].grouped_id
    /\ MessagePool[b].grouped_id = MessagePool[c].grouped_id
    /\ \A x \in MediaIds \ {a, b, c} :
         (IsImageItem(x) /\ InAlbum(x)) =>
             IF MessagePool[x].grouped_id = MessagePool[a].grouped_id
             THEN x > c
             ELSE ClusterFirst(MessagePool[x].grouped_id)
                      > ClusterFirst(MessagePool[a].grouped_id)

\* C17: three photos of one album cluster get featured-<slug>.jpg,
\* image-2-<slug>.jpg and image-3-<slug>.jpg in ascending id order, for
\* every order in which the group holds them.
C17_AlbumPhotosByAscendingId ==
    MediaDone =>
        \A a \in MediaIds : \A b \in MediaIds : \A c \in MediaIds :
            ThreeAlbumPhotos(a, b, c) =>
                LET clean == CleanFolderName(folder_name)
                IN  /\ FilenameOf(a) = FeaturedPrefix \o clean \o Jpg
                    /\ FilenameOf(b) =
                           ImagePrefix \o <<"2", "-">> \o clean \o Jpg
                    /\ FilenameOf(c) =
                           ImagePrefix \o <<"3", "-">> \o clean \o Jpg

\* C17 witness: the group holds three photos of one album in an order that
\* is not ascending, and the call has returned
C17_Witness ==
    /\ MediaDone
    /\ Len(message_group) >= 3
    /\ message_group[1] > message_group[2]
    /\ \E a \in MediaIds : \E b \in MediaIds : \E c \in MediaIds :
           /\ ThreeAlbumPhotos(a, b, c)
           /\ {message_group[1], message_group[2]} \subseteq {a, b, c}
\* the album image items of the group
AlbumImages == {x \in MediaIds : IsImageItem(x) /\ InAlbum(x)}

\* p is an ungrouped photo of the group whose id is lower than the id of
\* every album photo, and the albums of the group contain an image
LowSinglePhoto(p) ==
    /\ p \in MediaIds
    /\ MessagePool[p].media = "photo"
    /\ ~InAlbum(p)
    /\ AlbumImages # {}
    /\ \A x \in AlbumImages : MessagePool[x].media = "photo" => p < x

\* C18: all album clusters are processed before any ungrouped media,
\* whatever the ids: an ungrouped photo whose id is lower than every album
\* photo's id is numbered after all album images and is not the featured
\* image when the albums contain an image.
C18_AlbumsBeforeSingles ==
    /\ \A i \in DOMAIN downloads :
           \A j \in DOMAIN downloads :
               (i < j /\ downloads[i].pass = "single") =>
                   downloads[j].pass = "single"
    /\ MediaDone =>
           \A p \in MediaIds :
               LowSinglePhoto(p) =>
                   /\ \E n \in (Cardinality(AlbumImages) + 1)..Len(downloads) :
                          FilenameOf(p) =
                              ImagePrefix \o DigitsOf(n) \o <<"-">>
                                  \o CleanFolderName(folder_name) \o Jpg
                   /\ featured_image # FilenameOf(p)

\* the processed messages that are image items
ImagesProcessed(d) == {k \in DOMAIN d : IsImageItem(d[k].id)}

\* the processed messages of another media type whose downloaded file has
\* an image extension
OtherImagesProcessed(d) ==
    {k \in DOMAIN d :
        /\ MessagePool[d[k].id].media = "other"
        /\ d[k].path # <<>>
        /\ Lower(PathSuffix(d[k].path)) \in ImgExtensions}

\* the message is a video or a non-image document
IsPlainDocument(id) ==
    MessagePool[id].media = "document" /\ ~IsImageItem(id)

\* the step processed one message
ProcessedOne == Len(downloads') = Len(downloads) + 1

\* a step that processes a video or a non-image document leaves the counter
\* and the featured image as they are
PlainDocumentInert ==
    (ProcessedOne /\ IsPlainDocument(downloads'[Len(downloads')].id)) =>
        /\ image_count' = image_count
        /\ featured_image' = featured_image

\* C19 as stated: the image counter starts at 0 for each group, is never
\* reset between album clusters or between albums and singles, and equals
\* the number of image items (photos and image documents) processed so
\* far; a video or a non-image document never changes the counter and
\* never becomes the featured image.
C19_CounterCountsImageItems ==
    [][ /\ pc' = "download" => (Len(downloads') = 0 => image_count' = 0)
        /\ image_count' = Cardinality(ImagesProcessed(downloads'))
        /\ PlainDocumentInert
      ]_vars

\* C19 amended: the counter starts at 0 for each group, is never reset, and
\* equals the number of processed photos and image documents plus the
\* number of processed messages of another media type whose downloaded
\* file has an image extension; a video or a non-image document never
\* changes the counter and never becomes the featured image.
C19_CounterCountsImageFiles ==
    [][ /\ pc' = "download" => (Len(downloads') = 0 => image_count' = 0)
        /\ image_count' = Cardinality(ImagesProcessed(downloads'))
                            + Cardinality(OtherImagesProcessed(downloads'))
        /\ PlainDocumentInert
        /\ \A k \in DOMAIN downloads' :
               IsPlainDocument(downloads'[k].id) =>
                   featured_image' # downloads'[k].filename
      ]_vars

\* C19 witness: messages of two album clusters and single messages were
\* processed, among them a message of another media type saved as an
\* image, and the counter is 3
C19_Witness ==
    /\ MediaDone
    /\ image_count = 3
    /\ OtherImagesProcessed(downloads) # {}
    /\ \E i \in DOMAIN downloads :
         \E j \in DOMAIN downloads :
             /\ downloads[i].pass = "album" /\ downloads[j].pass = "album"
             /\ MessagePool[downloads[i].id].grouped_id
                    # MessagePool[downloads[j].id].grouped_id
\* ---- claims about the folders of a run
\* C20: distinct groups of one run are written to distinct folders:
\* create_hugo_post never writes the index.md of one group into a folder
\* that already holds the index.md of another group of the run, also when
\* two groups start with the same first line and have the same parsed date.
C20_DistinctFolders ==
    \A i \in DOMAIN posts :
        \A j \in DOMAIN posts :
            i < j => posts[i].folder # posts[j].folder
\* C21: the document rendered for a group is determined by that group's own
\* messages and downloads only, whatever groups were processed before it:
\* its image gallery lists exactly the gallery images that the group's own
\* downloads wrote.
C21_GalleryFromOwnDownloads ==
    \A i \in DOMAIN posts :
        posts[i].gallery = {f \in posts[i].saved : GlobImage(f)}
\* C22: an exception while building the post of a group is logged and only
\* that group is skipped: the groups are attempted in emission order, each
\* exactly once, a run that ends normally has attempted every group, and
\* the posts written are those of the groups whose attempt did not raise.
C22_FailedGroupSkipped ==
    /\ \A k \in DOMAIN attempts : attempts[k].group = k
    /\ Len(attempts) <= Len(run_texts)
    /\ pc = "run_done" => Len(attempts) = Len(run_texts)
    /\ pc = "run" => Len(attempts) = group_index
    /\ LET done(a) == ~a.raised
       IN  [k \in DOMAIN posts |-> posts[k].group]
               = [k \in DOMAIN SelectSeq(attempts, done) |->
                      SelectSeq(attempts, done)[k].group]

\* C22 witness: the run ended normally after the post of one group raised
\* and the post of a later group was written
C22_Witness ==
    /\ pc = "run_done"
    /\ \E i \in DOMAIN attempts :
         \E j \in DOMAIN attempts :
             /\ i < j
             /\ attempts[i].raised
             /\ ~attempts[j].raised
             /\ \E k \in DOMAIN posts : posts[k].group = j

\* C23: an external interrupt stops the run: the interrupt itself writes no
\* post, removes no file and leaves every written post as it is, and after
\* it no step is taken: no further group is processed and no post started.
C23_InterruptStopsRun ==
    [][ /\ pc # "interrupted"
        /\ pc' = "interrupted" =>
               /\ posts' = posts
               /\ attempts' = attempts
               /\ group_index' = group_index
               /\ content_dir \subseteq content_dir'
      ]_vars

\* C23 witness: the run was interrupted after a post was written and before
\* the last group was processed
C23_Witness ==
    /\ pc = "interrupted"
    /\ posts # <<>>
    /\ group_index < Len(run_texts)
\* ---- claims about the frontmatter
\* the first n characters of t, all of t when it is shorter
FirstChars(t, n) == SubSeq(t, 1, IF Len(t) < n THEN Len(t) ELSE n)

\* C24 as stated: the frontmatter title is the parsed title unchanged when
\* the parsed title has at most 30 characters, and otherwise the first 70
\* characters of the parsed title followed by "..."; it has at most 73
\* characters.
C24_TitleCutAt70 ==
    pc = "title_done" =>
        /\ title = IF Len(structure.title) <= TitleShort
                   THEN structure.title
                   ELSE FirstChars(structure.title, TitleCut) \o <<".", ".", ".">>
        /\ Len(title) <= TitleCut + 3

\* C24 amended: the frontmatter title is "Press Release" when the parsed
\* title is empty, the parsed title unchanged when it has 1 to 30
\* characters, and otherwise the first 70 characters of the parsed title
\* without their trailing whitespace, followed by "..."; it has at most 73
\* characters.
C24_TitleCutAt70Trimmed ==
    pc = "title_done" =>
        LET parsed == structure.title
            cut    == FirstChars(parsed, TitleCut)
        IN  /\ parsed = <<>> =>
                   title = <<"P", "r", "e", "s", "s", " ",
                             "R", "e", "l", "e", "a", "s", "e">>
            /\ (parsed # <<>> /\ Len(parsed) <= TitleShort) => title = parsed
            /\ Len(parsed) > TitleShort =>
                   \E m \in 0..Len(cut) :
                       /\ title = SubSeq(cut, 1, m) \o <<".", ".", ".">>
                       /\ m > 0 => ~IsSpace(cut[m])
                       /\ \A k \in (m + 1)..Len(cut) : IsSpace(cut[k])
            /\ Len(title) <= TitleCut + 3

\* C24 witness: a first body line of more than 100 characters with spaces at
\* its 69th and 70th place was parsed to a title of 103 characters and
\* rendered as its first 68 characters and "..."
C24_Witness ==
    /\ pc = "title_done"
    /\ Len(structure.title) = TitleLimit + 3
    /\ IsSpace(structure.title[TitleCut])
    /\ IsSpace(structure.title[TitleCut - 1])
    /\ Len(title) = TitleCut - 2 + 3
\* ---- claims about folder names and dates
\* the non-empty stripped lines of group g of the run
RunLines(g) == TextTable[run_texts[g]].lines

\* the first line of group g yields no slug: the text is empty or none of
\* the first 50 characters of its first line is a word character
EmptySlug(g) ==
    \/ RunLines(g) = <<>>
    \/ \A k \in 1..Len(RunLines(g)[1]) :
         k <= FolderLimit => ~IsWord(RunLines(g)[1][k])

\* C25 as stated: generate_folder_name is deterministic: for the same text
\* and date it returns the same folder name at every time of call, also
\* for a text whose first line yields an empty slug.
C25_FolderNameDeterministic ==
    \A k \in DOMAIN posts :
        \A t \in CallTimes :
            posts[k].folder = FolderOf(run_texts[posts[k].group], t)

\* C25 amended: for a text whose first line yields a non-empty slug,
\* generate_folder_name returns the same folder name for the same text and
\* date at every time of call; for a text whose first line yields an empty
\* slug the name ends in post_<timestamp> of the time of the call.
C25_FolderNameDeterministicForSlug ==
    \A k \in DOMAIN posts :
        LET g == posts[k].group
        IN  /\ ~EmptySlug(g) =>
                   \A t \in CallTimes :
                       posts[k].folder = FolderOf(run_texts[g], t)
            /\ EmptySlug(g) =>
                   \E t \in 0..now :
                       LET stamp == <<"p", "o", "s", "t", "_">>
                                      \o SubSeq(PostTimestamp(t), 6,
                                                Len(PostTimestamp(t)))
                       IN  /\ Len(posts[k].folder) >= Len(stamp)
                           /\ SubSeq(posts[k].folder,
                                     Len(posts[k].folder) - Len(stamp) + 1,
                                     Len(posts[k].folder)) = stamp

\* C25 witness: a second after the start of the run the folder of a group
\* with a non-empty slug was named, after that of a group with an empty slug
C25_Witness ==
    /\ Len(posts) = 2
    /\ now = 2
    /\ posts[1].group = 1 /\ posts[2].group = 2
    /\ EmptySlug(1)
    /\ ~EmptySlug(2)
\* the number written by two or four digits
NumberOf(ds) == IntOf(ds)

\* the day d of the month m of the year y is a day of the calendar
CalendarDay(d, m, y) ==
    /\ y >= 1
    /\ m \in 1..12
    /\ d >= 1
    /\ d <= 31
    /\ m \in {4, 6, 9, 11} => d <= 30
    /\ m = 2 => d <= 29
    /\ (m = 2 /\ (y % 4 # 0 \/ (y % 100 = 0 /\ y % 400 # 0))) => d <= 28

\* C26: convert_date_format maps a valid DD-MM-YYYY date to the same day
\* written YYYY-MM-DD ("01-02-2023" gives "2023-02-01"), and for a date
\* that is no day of the calendar (such as 99-99-2023) it returns the
\* current date; it never raises.
C26_ConvertDateFormat ==
    pc = "date_done" =>
        LET date == structure.date
            dd == SubSeq(date, 1, 2)
            mm == SubSeq(date, 4, 5)
            yyyy == SubSeq(date, 7, 10)
        IN  /\ CalendarDay(NumberOf(dd), NumberOf(mm), NumberOf(yyyy)) =>
                   hugo_date = yyyy \o <<"-">> \o mm \o <<"-">> \o dd
            /\ ~CalendarDay(NumberOf(dd), NumberOf(mm), NumberOf(yyyy)) =>
                   hugo_date = <<"2", "0", "2", "3", "-", "0", "1", "-", "0",
                                 IF now < 86400 THEN "1" ELSE "2">>
            /\ date = <<"0", "1", "-", "0", "2", "-", "2", "0", "2", "3">> =>
                   hugo_date = <<"2", "0", "2", "3", "-", "0", "2", "-", "0", "1">>
            /\ Len(hugo_date) = 10
            /\ \A k \in {1, 2, 3, 4, 6, 7, 9, 10} : IsDigit(hugo_date[k])

\* C26 witness: 99-99-2023 was converted on the second day of the run and
\* gave the date of that day
C26_Witness ==
    /\ pc = "date_done"
    /\ structure.date = <<"9", "9", "-", "9", "9", "-", "2", "0", "2", "3">>
    /\ now = 86400
    /\ hugo_date = <<"2", "0", "2", "3", "-", "0", "1", "-", "0", "2">>
\* ---- more claims about group_messages
\* the groups of gs joined in order
RECURSIVE Flatten(_)
Flatten(gs) == IF gs = <<>> THEN <<>> ELSE Head(gs) \o Flatten(Tail(gs))

\* the positions of the stream consumed so far that carry text, ascending
TextPositions ==
    LET bears(q) == ~EmptyOrAbsent(messages[q])
    IN  SelectSeq([q \in 1..Len(messages) |-> q], bears)

\* C27: every message with non-empty text is in exactly one returned group,
\* exactly once, no returned group is empty and no message with empty text
\* is in any group: the returned groups joined in order are the input
\* stream restricted to its text-bearing messages (while the loop runs, the
\* emitted groups and the open group are).
C27_GroupsPartitionTextMessages ==
    /\ \A g \in DOMAIN grouped : grouped[g] # <<>>
    /\ pc = "done" => Flatten(grouped) = TextPositions
    /\ pc = "loop" => Flatten(grouped) \o current_group = TextPositions

\* C27 witness: a stream with an empty message, a message in a series and
\* a message outside any series was grouped
C27_Witness ==
    /\ pc = "done"
    /\ Len(grouped) >= 2
    /\ \E q \in 1..Len(messages) : EmptyOrAbsent(messages[q])
    /\ \E g \in DOMAIN grouped : MarkerAt(grouped[g][1]).matched

\* C28: after every message the open group is non-empty exactly when
\* expecting_continuation is true, and then expected_total >= 2,
\* expected_next is the size of the open group plus 1 and
\* expected_next <= expected_total.
C28_OpenGroupIffExpecting ==
    /\ (current_group # <<>>) <=> expecting_continuation
    /\ expecting_continuation =>
           /\ expected_total >= 2
           /\ expected_next = Len(current_group) + 1
           /\ expected_next <= expected_total

\* C28 witness: after a message 1/3 and a message 2/3 the series is open and
\* the third is expected
C28_Witness ==
    /\ pc = "loop"
    /\ expecting_continuation
    /\ Len(current_group) = 2
    /\ expected_next = 3
    /\ expected_total = 3

\* C29: every returned group of k >= 2 messages has the markers 1/t, 2/t,
\* ..., k/t in that order for one total t with k <= t; every other returned
\* group has exactly one message.
C29_GroupIsSeriesPrefix ==
    \A g \in DOMAIN grouped :
        LET k == Len(grouped[g])
            t == MarkerAt(grouped[g][1]).total_num
        IN  /\ k >= 1
            /\ k >= 2 =>
                   /\ k <= t
                   /\ \A j \in 1..k :
                          LET m == MarkerAt(grouped[g][j])
                          IN  m.matched /\ m.current_num = j /\ m.total_num = t

\* C29 witness: the returned groups hold the complete series 1/3, 2/3, 3/3
C29_Witness ==
    /\ pc = "done"
    /\ \E g \in DOMAIN grouped :
         /\ Len(grouped[g]) = 3
         /\ MarkerAt(grouped[g][3]).current_num = 3
         /\ MarkerAt(grouped[g][3]).total_num = 3
\* ---- more claims about parse_message_structure
\* a is b with zero or more entries left out, the others in the same order
RECURSIVE IsSubsequence(_, _)
IsSubsequence(a, b) ==
    IF a = <<>> THEN TRUE
    ELSE IF b = <<>> THEN FALSE
    ELSE IF Head(a) = Head(b) THEN IsSubsequence(Tail(a), Tail(b))
    ELSE IsSubsequence(a, Tail(b))

\* C30: once the first body line has been appended, organization and
\* subUnit are never changed by a later line; each of them is assigned at
\* most once during a parse (a field that is set is never set again); and
\* bodyLines is always an order-preserving subsequence of the non-empty
\* trimmed input lines.
C30_HeaderFrozenBodyInOrder ==
    [][ /\ content_started =>
               /\ structure'.party_name = structure.party_name
               /\ structure'.committee = structure.committee
        /\ structure.party_name # <<>> =>
               structure'.party_name = structure.party_name
        /\ structure.committee # <<>> =>
               structure'.committee = structure.committee
        /\ IsSubsequence(structure'.content_lines, StrippedLines(raw_lines'))
      ]_vars

\* C30 witness: organization and subUnit were set, then a body line, and
\* after it a line with an organization keyword and a line with a sub-unit
\* keyword became body lines
C30_Witness ==
    /\ pc = "parsed"
    /\ structure.party_name # <<>>
    /\ structure.committee # <<>>
    /\ Len(structure.content_lines) = 3
    /\ ~ClassOf(structure.content_lines[1]).party
    /\ ClassOf(structure.content_lines[2]).party
    /\ ClassOf(structure.content_lines[3]).committee
\* ---- claims about the press-release rule and the date rule
\* the step read one more line of the text
IsRulesStep == pc = "rules" /\ Len(raw_lines') = Len(raw_lines) + 1

\* that line, trimmed
RulesLine == StripLine(raw_lines'[Len(raw_lines')])

\* rule 1 or rule 2 takes the line l in the current state
HeaderRuleTakes(l) ==
    /\ ~content_started
    /\ \/ structure.party_name = <<>> /\ ClassOf(l).party
       \/ structure.committee = <<>> /\ ClassOf(l).committee

\* no entry of the body lines is a press-release line or a date line
NoRuleLineInBody(body) ==
    \A k \in DOMAIN body :
        ~ClassOf(body[k]).press /\ ~ClassOf(body[k]).dateline

\* C31 as stated: the press-release rule and the date rule are applied to
\* every line that rules 1 and 2 did not take, also after content has
\* started: no entry of bodyLines contains "press release" or starts with
\* "date:" or with a DD-MM-YYYY pattern, such a line is removed from the body,
\* and it sets isPressRelease or overwrites date.
C31_RuleLinesLeaveBody ==
    [][ /\ NoRuleLineInBody(structure'.content_lines)
        /\ (/\ IsRulesStep
            /\ RulesLine # <<>>
            /\ ~HeaderRuleTakes(RulesLine)
            /\ ClassOf(RulesLine).press \/ ClassOf(RulesLine).dateline) =>
               /\ structure'.content_lines = structure.content_lines
               /\ \/ ClassOf(RulesLine).press /\ structure'.press_release
                  \/ /\ ClassOf(RulesLine).date # <<>>
                     /\ structure'.date = ClassOf(RulesLine).date
      ]_vars

\* C31 amended: the press-release rule and the date rule are applied to
\* every line that rules 1 and 2 did not take, also after content has
\* started: no entry of bodyLines is such a line and such a line is removed
\* from the body; a press-release line sets isPressRelease and nothing else;
\* a date line with a DD-MM-YYYY substring overwrites date with the first
\* such substring; a line that starts with "date:" and has no DD-MM-YYYY
\* substring is removed and leaves date and isPressRelease as they were.
C31_RuleLinesLeaveBodyDateIfAny ==
    [][ /\ NoRuleLineInBody(structure'.content_lines)
        /\ (/\ IsRulesStep
            /\ RulesLine # <<>>
            /\ ~HeaderRuleTakes(RulesLine)
            /\ ClassOf(RulesLine).press \/ ClassOf(RulesLine).dateline) =>
               /\ structure'.content_lines = structure.content_lines
               /\ content_started' = content_started
               /\ ClassOf(RulesLine).press =>
                      /\ structure'.press_release
                      /\ structure'.date = structure.date
               /\ ~ClassOf(RulesLine).press =>
                      /\ structure'.press_release = structure.press_release
                      /\ structure'.date =
                             IF ClassOf(RulesLine).date # <<>>
                             THEN ClassOf(RulesLine).date
                             ELSE structure.date
      ]_vars

\* C31 witness: between two body lines a dated line, then a "date:" line
\* without a date and a press-release line were read; the body has the two
\* body lines only, date is the date of the dated line and isPressRelease
\* is set
C31_Witness ==
    /\ pc = "rules_done"
    /\ Len(Lines) = 5
    /\ structure.content_lines = <<Lines[1], Lines[5]>>
    /\ ClassOf(Lines[2]).dateline /\ ClassOf(Lines[2]).date # <<>>
    /\ ClassOf(Lines[3]).dateline /\ ClassOf(Lines[3]).date = <<>>
    /\ ClassOf(Lines[4]).press
    /\ structure.date = ClassOf(Lines[2]).date
    /\ structure.press_release

====
